---- MODULE Spec2Model ----
(***************************************************************************)
(* Model of capstan: the SPSC ring buffer (src/src/ring_buffer.rs), the    *)
(* command/event channels built on it (command.rs, event.rs), the engine   *)
(* that runs on the audio thread (engine.rs) and the control thread that   *)
(* drives it (main.rs).                                                    *)
(*                                                                         *)
(* RingSpec runs one producer and one consumer on one RingBuffer with      *)
(* try_send and try_recv decomposed into their index loads, slot access    *)
(* and index store.                                                        *)
(*                                                                         *)
(* Spec runs the control thread and the audio thread around a command      *)
(* channel and an event channel: the control thread compiles plans, sends  *)
(* commands and receives events; each process_audio call drains the        *)
(* command channel, applying every command, and then renders one block.    *)
(*                                                                         *)
(* GraphSpec runs one client of the graph builder (graph.rs): add_node,    *)
(* add_edge, topological_sort, compile and CompiledGraph::process, and an  *)
(* engine in which the client installs a plan and renders with it.         *)
(*                                                                         *)
(* WrapSpec runs whole try_send and try_recv calls on one ring until the   *)
(* indices wrap. DrainSpec runs process_audio against a control thread     *)
(* that never stops sending, with the audio thread scheduled fairly.       *)
(* CallSpec makes whole calls of process, apply_command and process_audio  *)
(* from one client thread; SnapshotSpec changes a builder after it was     *)
(* compiled; FallbackSpec renders with the engine's fallback chain;        *)
(* GainSpec applies GainProcessor::process to drawn inputs; ApplySpec      *)
(* calls apply_command directly on engines in varied states; MixSpec       *)
(* builds, compiles and processes graphs with a mixer.                     *)
(*                                                                         *)
(* Plans live in a heap indexed by plan id; a message that owns a plan     *)
(* carries its id. Samples are integers and a phase counts quarter turns.  *)
(***************************************************************************)
EXTENDS Integers, Sequences, FiniteSets, TLC

\* ------------------------------------------------------------------ bounds
\* Largest capacity a RingSpec run constructs its ring with.
MaxCap == 3
\* Number of distinct payloads the producer of RingSpec chooses from.
MaxValue == 2
\* Number of try_send calls the producer of RingSpec makes.
MaxSends == 4

\* usize arithmetic is modulo 2^64 (wrapping_add, wrapping_sub); the model
\* keeps the wrapping arithmetic with a modulus scaled down to 2^4.
UsizeModulus == 16

\* ------------------------------------------------------------------ values
\* Content of a MaybeUninit slot that was never written.
Uninit == [kind |-> "Uninit", arg |-> 0]

\* The payloads RingSpec sends: Command::SetGain(g).
RingValues == {[kind |-> "SetGain", arg |-> g] : g \in 1..MaxValue}

\* ------------------------------------------------------------ ring buffer
wrapping_add(x) == (x + 1) % UsizeModulus

wrapping_sub(a, b) == (a - b + UsizeModulus) % UsizeModulus

\* RingBuffer::new(capacity): uninitialized slots, both indices 0.
RingBuffer_new(capacity) ==
    [cap         |-> capacity,
     storage     |-> [i \in 0..(capacity - 1) |-> Uninit],
     write_index |-> 0,
     read_index  |-> 0]

\* Mutant of FullAt: off by one, the ring takes cap + 1 items.
FullAt_late(write, read, capacity) == wrapping_sub(write, read) = capacity + 1

\* Mutant of FullAt: off by one, the ring takes cap - 1 items.
FullAt_early(write, read, capacity) == wrapping_sub(write, read) >= capacity - 1

\* try_send's test "write.wrapping_sub(read) == self.cap".
FullAt(write, read, capacity) == wrapping_sub(write, read) = capacity

\* Mutant of EmptyAt: the consumer never sees the ring empty.
EmptyAt_never(read, write) == FALSE

\* try_recv's test "read == write".
EmptyAt(read, write) == read = write

\* "index % self.cap".
SlotIndex(index, capacity) == index % capacity

\* ------------------------------------------------------------------ nodes
\* Samples are integers. A phase counts quarter turns, so that
\* sin(2*PI*phase) is one of 0, 1, 0, -1 and "phase %= 1.0" is % PhaseSteps.
PhaseSteps == 4

\* The sample rate, in samples per second, of every generator of the model:
\* a generator of frequency f advances f quarter turns per sample.
SampleRate == 4

Sin2Pi(phase) == <<0, 1, 0, -1>>[phase + 1]

\* SineGenerator::new(frequency_hz, sample_rate).
SineGenerator_new(frequency_hz, sample_rate) ==
    [kind |-> "Sine", frequency_hz |-> frequency_hz, sample_rate |-> sample_rate,
     phase |-> 0]

\* GainProcessor::new(gain).
GainProcessor_new(gain) == [kind |-> "Gain", gain |-> gain]

\* Mixer::new(gains).
Mixer_new(gains) == [kind |-> "Mixer", gains |-> gains]

\* "self.phase += self.frequency_hz / self.sample_rate as f32; self.phase %= 1.0".
PhaseAfter(node, phase) ==
    (phase + (node.frequency_hz * PhaseSteps) \div node.sample_rate) % PhaseSteps

RECURSIVE SineRun(_, _, _, _)
\* The loop of SineGenerator::process over the samples k..Len(output).
SineRun(node, phase, output, k) ==
    IF k > Len(output)
    THEN [node |-> [node EXCEPT !.phase = phase], output |-> output]
    ELSE SineRun(node, PhaseAfter(node, phase),
                 [output EXCEPT ![k] = Sin2Pi(phase)], k + 1)

\* SineGenerator::process(_inputs, output).
SineGenerator_process(node, inputs, output) == SineRun(node, node.phase, output, 1)

\* Mutant of GainProcessor_process: the samples beyond the input's length are
\* left as they are.
GainProcessor_process_keeps_rest(node, inputs, output) ==
    IF Len(inputs) > 0
    THEN LET inp == inputs[1]
             n   == IF Len(output) <= Len(inp) THEN Len(output) ELSE Len(inp)
         IN  [node   |-> node,
              output |-> [i \in 1..Len(output) |->
                             IF i <= n THEN inp[i] * node.gain ELSE output[i]]]
    ELSE [node   |-> node,
          output |-> [i \in 1..Len(output) |-> output[i] * node.gain]]

\* GainProcessor::process(inputs, output).
GainProcessor_process(node, inputs, output) ==
    IF Len(inputs) > 0
    THEN LET inp == inputs[1]
             n   == IF Len(output) <= Len(inp) THEN Len(output) ELSE Len(inp)
         IN  [node   |-> node,
              output |-> [i \in 1..Len(output) |->
                             IF i <= n THEN inp[i] * node.gain ELSE 0]]
    ELSE [node   |-> node,
          output |-> [i \in 1..Len(output) |-> output[i] * node.gain]]

\* "self.gains.get(j).copied().unwrap_or(0.0)", j counted from 1.
GainOf(gains, j) == IF j <= Len(gains) THEN gains[j] ELSE 0

\* "inp.get(i).copied().unwrap_or(0.0)", i counted from 1.
SampleOf(inp, i) == IF i <= Len(inp) THEN inp[i] ELSE 0

RECURSIVE MixSum(_, _, _, _)
\* The inner loop of Mixer::process: the sum over the inputs j..Len(inputs).
MixSum(gains, inputs, i, j) ==
    IF j > Len(inputs)
    THEN 0
    ELSE SampleOf(inputs[j], i) * GainOf(gains, j) + MixSum(gains, inputs, i, j + 1)

\* Mutant of Mixer_process: the gains are taken from the end of the list, the
\* last gain for the first input.
Mixer_process_gains_reversed(node, inputs, output) ==
    [node   |-> node,
     output |-> [i \in 1..Len(output) |->
                    MixSum([k \in 1..Len(node.gains) |->
                               node.gains[Len(node.gains) + 1 - k]],
                           inputs, i, 1)]]

\* Mixer::process(inputs, output).
Mixer_process(node, inputs, output) ==
    [node   |-> node,
     output |-> [i \in 1..Len(output) |-> MixSum(node.gains, inputs, i, 1)]]

\* impl Processor for GraphNode: dispatch on the variant.
GraphNode_process(node, inputs, output) ==
    CASE node.kind = "Sine"  -> SineGenerator_process(node, inputs, output)
      [] node.kind = "Gain"  -> GainProcessor_process(node, inputs, output)
      [] node.kind = "Mixer" -> Mixer_process(node, inputs, output)

\* AudioBuffer::new(frame_count): zeroed.
AudioBuffer_new(frame_count) == [i \in 1..frame_count |-> 0]

\* ------------------------------------------------------------------ graph
\* Node ids count from 0 as in the code; nodes[id + 1] is the node of id.
AudioGraph_new == [nodes |-> <<>>, adjacency |-> <<>>]

\* AudioGraph::add_node(node): the graph after the call (the id returned is
\* the former node count).
add_node(g, node) ==
    [nodes |-> Append(g.nodes, node), adjacency |-> Append(g.adjacency, <<>>)]

\* AudioGraph::add_edge(from, to): indexing adjacency[from] panics when from
\* is out of range; `to` is not looked at.
add_edge(g, from, to) ==
    IF from < Len(g.adjacency)
    THEN [panicked |-> FALSE,
          graph |-> [g EXCEPT !.adjacency[from + 1] = Append(@, to)]]
    ELSE [panicked |-> TRUE, graph |-> g]

\* AudioGraph::successors(id).
successors(g, id) == g.adjacency[id + 1]

RECURSIVE CountEdgesInto(_, _, _)
\* The number of entries i in the successor list succ from position k on.
CountEdgesInto(succ, i, k) ==
    IF k > Len(succ) THEN 0
    ELSE (IF succ[k] = i THEN 1 ELSE 0) + CountEdgesInto(succ, i, k + 1)

RECURSIVE InDegreeFrom(_, _, _)
\* The in-degree of node i counted over the adjacency lists a..Len(adjacency).
InDegreeFrom(g, i, a) ==
    IF a > Len(g.adjacency) THEN 0
    ELSE CountEdgesInto(g.adjacency[a], i, 1) + InDegreeFrom(g, i, a + 1)

\* "in_degree[i] += 1" over every successor entry (entries >= n are skipped).
InDegree(g) == [i \in 0..(Len(g.nodes) - 1) |-> InDegreeFrom(g, i, 1)]

RECURSIVE SeedQueue(_, _, _)
\* "(0..n).filter(|&i| in_degree[i] == 0)": ascending ids of in-degree 0.
SeedQueue(in_degree, i, n) ==
    IF i >= n THEN <<>>
    ELSE (IF in_degree[i] = 0 THEN <<i>> ELSE <<>>) \o SeedQueue(in_degree, i + 1, n)

RECURSIVE Relax(_, _, _, _, _)
\* The loop over successors(id): decrement, and push those that reach 0.
Relax(succ, k, n, in_degree, queue) ==
    IF k > Len(succ)
    THEN [in_degree |-> in_degree, queue |-> queue]
    ELSE LET i == succ[k]
         IN  IF i < n
             THEN LET d == [in_degree EXCEPT ![i] = @ - 1]
                  IN  Relax(succ, k + 1, n, d,
                            IF d[i] = 0 THEN Append(queue, i) ELSE queue)
             ELSE Relax(succ, k + 1, n, in_degree, queue)

RECURSIVE Kahn(_, _, _, _)
\* "while let Some(id) = queue.pop_front()".
Kahn(g, in_degree, queue, order) ==
    IF queue = <<>>
    THEN order
    ELSE LET id == Head(queue)
             r  == Relax(successors(g, id), 1, Len(g.nodes), in_degree, Tail(queue))
         IN  Kahn(g, r.in_degree, r.queue, Append(order, id))

\* Mutant of topological_sort: the order is returned without the length check.
topological_sort_unchecked(g) ==
    LET n == Len(g.nodes)
    IN  IF n = 0
        THEN [ok |-> TRUE, order |-> <<>>]
        ELSE LET in_degree == InDegree(g)
                 order     == Kahn(g, in_degree, SeedQueue(in_degree, 0, n), <<>>)
             IN  [ok |-> TRUE, order |-> order]

\* AudioGraph::topological_sort(): Ok(order) or Err(()).
topological_sort(g) ==
    LET n == Len(g.nodes)
    IN  IF n = 0
        THEN [ok |-> TRUE, order |-> <<>>]
        ELSE LET in_degree == InDegree(g)
                 order     == Kahn(g, in_degree, SeedQueue(in_degree, 0, n), <<>>)
             IN  IF Len(order) # n
                 THEN [ok |-> FALSE, order |-> <<>>]
                 ELSE [ok |-> TRUE, order |-> order]

\* "self.adjacency[..].contains(&id)".
Contains(list, id) == \E k \in 1..Len(list) : list[k] = id

RECURSIVE InputsOf_reversed(_, _, _, _)
\* Mutant of InputsOf: the positions node i feeds instead of those feeding it.
InputsOf_reversed(g, order, i, j) ==
    IF j >= Len(order) THEN <<>>
    ELSE (IF Contains(g.adjacency[order[i + 1] + 1], order[j + 1]) THEN <<j>> ELSE <<>>)
         \o InputsOf_reversed(g, order, i, j + 1)

RECURSIVE InputsOf(_, _, _, _)
\* "(0..n).filter(|&j| self.adjacency[order[j]].contains(&order[i]))", from j on.
InputsOf(g, order, i, j) ==
    IF j >= Len(order) THEN <<>>
    ELSE (IF Contains(g.adjacency[order[j + 1] + 1], order[i + 1]) THEN <<j>> ELSE <<>>)
         \o InputsOf(g, order, i, j + 1)

NoGraph == [nodes |-> <<>>, scratch_buffers |-> <<>>, input_buf_indices |-> <<>>]

\* Mutant of compile: a failed sort is not propagated; the plan is built
\* from the nodes that were ordered before the sort got stuck.
compile_ignores_cycle(g, frame_count) ==
    LET in_degree == InDegree(g)
        order     == IF Len(g.nodes) = 0 THEN <<>>
                     ELSE Kahn(g, in_degree, SeedQueue(in_degree, 0, Len(g.nodes)), <<>>)
        n         == Len(order)
    IN  [ok |-> TRUE,
         graph |->
           [nodes |-> [i \in 1..n |-> g.nodes[order[i] + 1]],
            scratch_buffers |-> [i \in 1..n |-> AudioBuffer_new(frame_count)],
            input_buf_indices |-> [i \in 1..n |-> InputsOf(g, order, i - 1, 0)]]]

\* AudioGraph::compile(frame_count): Ok(CompiledGraph) or Err(()).
compile(g, frame_count) ==
    LET sorted == topological_sort(g)
        order  == sorted.order
        n      == Len(order)
    IN  IF ~sorted.ok
        THEN [ok |-> FALSE, graph |-> NoGraph]
        ELSE [ok |-> TRUE,
              graph |->
                [nodes |-> [i \in 1..n |-> g.nodes[order[i] + 1]],
                 scratch_buffers |-> [i \in 1..n |-> AudioBuffer_new(frame_count)],
                 input_buf_indices |-> [i \in 1..n |-> InputsOf(g, order, i - 1, 0)]]]

RECURSIVE RunNodes(_, _)
\* The loop "for i in 0..n" of CompiledGraph::process, from node i on.
RunNodes(cg, i) ==
    IF i >= Len(cg.nodes)
    THEN cg
    ELSE LET idx    == cg.input_buf_indices[i + 1]
             inputs == [k \in 1..Len(idx) |-> cg.scratch_buffers[idx[k] + 1]]
             r      == GraphNode_process(cg.nodes[i + 1], inputs, cg.scratch_buffers[i + 1])
         IN  RunNodes([cg EXCEPT !.nodes[i + 1] = r.node,
                                 !.scratch_buffers[i + 1] = r.output], i + 1)

\* "let input_slices: Vec<&[f32]> = .. .collect()" inside the node loop: the
\* positions i whose Vec is not empty, each of which takes a heap block for
\* the Vec and gives it back at the end of the iteration (an empty Vec has no
\* heap block).
InputSlicesAllocated(cg) ==
    {i \in 0..(Len(cg.nodes) - 1) : Len(cg.input_buf_indices[i + 1]) > 0}

\* CompiledGraph::process(output). copy_from_slice panics unless the source
\* and the destination output[..len] have the same length. allocs is the
\* number of heap blocks taken (and freed) during the call.
\* Mutant of CompiledGraph_process: a plan without nodes silences the output.
CompiledGraph_process_clears(cg, output) ==
    IF Len(cg.nodes) = 0
    THEN [graph |-> cg, output |-> [i \in 1..Len(output) |-> 0],
          panicked |-> FALSE, allocs |-> 0]
    ELSE LET ran  == RunNodes(cg, 0)
             last == ran.scratch_buffers[Len(ran.scratch_buffers)]
             len  == IF Len(last) <= Len(output) THEN Len(last) ELSE Len(output)
             made == Cardinality(InputSlicesAllocated(cg))
         IN  IF Len(last) # len
             THEN [graph |-> ran, output |-> output, panicked |-> TRUE,
                   allocs |-> made]
             ELSE [graph |-> ran,
                   output |-> [i \in 1..Len(output) |->
                                  IF i <= len THEN last[i] ELSE output[i]],
                   panicked |-> FALSE,
                   allocs |-> made]

CompiledGraph_process(cg, output) ==
    IF Len(cg.nodes) = 0
    THEN [graph |-> cg, output |-> output, panicked |-> FALSE, allocs |-> 0]
    ELSE LET ran  == RunNodes(cg, 0)
             last == ran.scratch_buffers[Len(ran.scratch_buffers)]
             len  == IF Len(last) <= Len(output) THEN Len(last) ELSE Len(output)
             made == Cardinality(InputSlicesAllocated(cg))
         IN  IF Len(last) # len
             THEN [graph |-> ran, output |-> output, panicked |-> TRUE,
                   allocs |-> made]
             ELSE [graph |-> ran,
                   output |-> [i \in 1..Len(output) |->
                                  IF i <= len THEN last[i] ELSE output[i]],
                   panicked |-> FALSE,
                   allocs |-> made]

VARIABLES
    ring,          \* the RingBuffer shared by producer and consumer
    p_pc,          \* producer: position inside try_send
    p_value,       \* producer: the argument `value`
    p_read,        \* producer: local `read`
    p_write,       \* producer: local `write`
    p_ret,         \* producer: result of the last completed try_send
    c_pc,          \* consumer: position inside try_recv
    c_read,        \* consumer: local `read`
    c_write,       \* consumer: local `write`
    c_value,       \* consumer: local `value`
    c_ret,         \* consumer: result of the last completed try_recv
    \* history of the run (not program state)
    sent,          \* values whose try_send returned Ok, in order
    recvd,         \* values returned by try_recv as Some, in order
    send_calls,    \* try_send calls begun
    send_done,     \* try_send calls completed
    recv_began,    \* some try_recv call has begun
    p_snap,        \* the ring as it was when the current try_send began
    room_made,     \* a try_recv begun on a full ring returned Some since the last try_send began
    p_after_room,  \* room_made as seen when the current try_send began
    c_on_full      \* the current try_recv began on a full ring

ringVars == <<ring>>
prodVars == <<p_pc, p_value, p_read, p_write, p_ret>>
consVars == <<c_pc, c_read, c_write, c_value, c_ret>>
histVars == <<sent, recvd, send_calls, send_done, recv_began, p_snap, room_made,
              p_after_room, c_on_full>>

ringSide == <<ringVars, prodVars, consVars, histVars>>

VARIABLES
    cmd_ring,      \* command channel: control thread sends, audio thread receives
    evt_ring,      \* event channel: audio thread sends, control thread receives
    engine,        \* the Engine owned by the audio callback
    plans,         \* heap: the CompiledGraph behind each plan id (NoGraph: none)
    plan_status,   \* heap: "none" (not created), "live", or the thread that dropped it
    ctl_held,      \* the plan the control thread has compiled and not yet sent (0: none)
    a_pc,          \* audio thread: position inside process_audio
    output,        \* the caller's output slice of the current / last callback
    \* history of the run (not program state)
    attempts,      \* command try_send calls made by the control thread
    sent_log,      \* commands whose try_send returned Ok, in order
    applied_log,   \* commands applied by apply_command, in order
    evt_log,       \* events whose try_send returned Ok, in order
    evt_recvd,     \* events the control thread received, in order
    a_must,        \* Len(sent_log) when the current process_audio call began
    drain_swaps,   \* plans of the swaps applied in the drain of the current / last call, in order
    rendered_by    \* what wrote the output of the last completed call

sysVars == <<cmd_ring, evt_ring, engine, plans, plan_status, ctl_held, a_pc, output,
             attempts, sent_log, applied_log, evt_log, evt_recvd, a_must,
             drain_swaps, rendered_by>>

VARIABLES
    graph,         \* the AudioGraph a client builds
    b_pc,          \* the client: "ready", or "panicked" once a call has panicked
    b_last         \* the client's last call and what it returned

builderSide == <<graph, b_pc, b_last>>

VARIABLES
    w_unread       \* history: the items sent Ok and not yet received, oldest
                   \* first, each with the slot it was written to

wrapSide == <<w_unread>>

vars == <<ringSide, sysVars, builderSide, wrapSide>>

NoRet == [ok |-> FALSE, value |-> Uninit, after_room |-> FALSE]

\* One RingBuffer::new(capacity), capacity in caps, and both threads outside
\* any call.
RingStart(caps) ==
    /\ \E capacity \in caps : ring = RingBuffer_new(capacity)
    /\ p_pc = "idle" /\ p_value = Uninit /\ p_read = 0 /\ p_write = 0
    /\ p_ret = NoRet
    /\ c_pc = "idle" /\ c_read = 0 /\ c_write = 0 /\ c_value = Uninit
    /\ c_ret = [some |-> FALSE, value |-> Uninit]
    /\ sent = <<>> /\ recvd = <<>> /\ send_calls = 0 /\ send_done = 0
    /\ recv_began = FALSE /\ p_snap = ring
    /\ room_made = FALSE /\ p_after_room = FALSE /\ c_on_full = FALSE

\* ---- producer: RingBuffer::try_send(value)
\* "let read = self.read_index.load(Acquire)": the call begins.
P_LoadRead ==
    /\ UNCHANGED <<sysVars, builderSide, wrapSide>>
    /\ p_pc = "idle"
    /\ send_calls < MaxSends
    /\ \E v \in RingValues : p_value' = v
    /\ p_read' = ring.read_index
    /\ p_pc' = "load_write"
    /\ send_calls' = send_calls + 1
    /\ p_snap' = ring
    /\ p_after_room' = room_made
    /\ room_made' = FALSE
    /\ UNCHANGED <<ring, p_write, p_ret, consVars, sent, recvd, send_done,
                   recv_began, c_on_full>>

\* "let write = self.write_index.load(Relaxed)".
P_LoadWrite ==
    /\ UNCHANGED <<sysVars, builderSide, wrapSide>>
    /\ p_pc = "load_write"
    /\ p_write' = ring.write_index
    /\ p_pc' = "check"
    /\ UNCHANGED <<ring, p_value, p_read, p_ret, consVars, histVars>>

\* Mutant of P_Full: the rejected send publishes a slot all the same.
P_Full_publishes ==
    /\ UNCHANGED <<sysVars, builderSide, wrapSide>>
    /\ p_pc = "check"
    /\ FullAt(p_write, p_read, ring.cap)
    /\ p_ret' = [ok |-> FALSE, value |-> p_value, after_room |-> p_after_room]
    /\ ring' = [ring EXCEPT !.write_index = wrapping_add(p_write)]
    /\ p_pc' = "idle"
    /\ send_done' = send_done + 1
    /\ UNCHANGED <<p_value, p_read, p_write, consVars, sent, recvd, send_calls,
                   recv_began, p_snap, room_made, p_after_room, c_on_full>>

\* Mutant of P_Full: on a full ring the call does not return but loads the
\* read index again, until the consumer has made room.
P_Full_spins ==
    /\ UNCHANGED <<sysVars, builderSide, wrapSide>>
    /\ p_pc = "check"
    /\ FullAt(p_write, p_read, ring.cap)
    /\ p_read' = ring.read_index
    /\ p_pc' = "load_write"
    /\ UNCHANGED <<ring, p_value, p_write, p_ret, consVars, histVars>>

\* "if write.wrapping_sub(read) == self.cap { return Err(value); }".
P_Full ==
    /\ UNCHANGED <<sysVars, builderSide, wrapSide>>
    /\ p_pc = "check"
    /\ FullAt(p_write, p_read, ring.cap)
    /\ p_ret' = [ok |-> FALSE, value |-> p_value, after_room |-> p_after_room]
    /\ p_pc' = "idle"
    /\ send_done' = send_done + 1
    /\ UNCHANGED <<ring, p_value, p_read, p_write, consVars, sent, recvd,
                   send_calls, recv_began, p_snap, room_made, p_after_room,
                   c_on_full>>

\* Not full: "ptr::write(ptr, MaybeUninit::new(value))" at index write % cap.
P_WriteSlot ==
    /\ UNCHANGED <<sysVars, builderSide, wrapSide>>
    /\ p_pc = "check"
    /\ ~FullAt(p_write, p_read, ring.cap)
    /\ ring' = [ring EXCEPT !.storage[SlotIndex(p_write, ring.cap)] = p_value]
    /\ p_pc' = "store"
    /\ UNCHANGED <<p_value, p_read, p_write, p_ret, consVars, histVars>>

\* "self.write_index.store(write.wrapping_add(1), Release); Ok(())".
P_Store ==
    /\ UNCHANGED <<sysVars, builderSide, wrapSide>>
    /\ p_pc = "store"
    /\ ring' = [ring EXCEPT !.write_index = wrapping_add(p_write)]
    /\ p_ret' = [ok |-> TRUE, value |-> Uninit, after_room |-> p_after_room]
    /\ p_pc' = "idle"
    /\ sent' = Append(sent, p_value)
    /\ send_done' = send_done + 1
    /\ UNCHANGED <<p_value, p_read, p_write, consVars, recvd, send_calls,
                   recv_began, p_snap, room_made, p_after_room, c_on_full>>

\* ---- consumer: RingBuffer::try_recv()
\* "let read = self.read_index.load(Relaxed)": the call begins.
C_LoadRead ==
    /\ UNCHANGED <<sysVars, builderSide, wrapSide>>
    /\ c_pc = "idle"
    /\ c_read' = ring.read_index
    /\ c_pc' = "load_write"
    /\ recv_began' = TRUE
    /\ c_on_full' = (Len(sent) - Len(recvd) = ring.cap)
    /\ UNCHANGED <<ring, c_write, c_value, c_ret, prodVars, sent, recvd,
                   send_calls, send_done, p_snap, room_made, p_after_room>>

\* "let write = self.write_index.load(Acquire)".
C_LoadWrite ==
    /\ UNCHANGED <<sysVars, builderSide, wrapSide>>
    /\ c_pc = "load_write"
    /\ c_write' = ring.write_index
    /\ c_pc' = "check"
    /\ UNCHANGED <<ring, c_read, c_value, c_ret, prodVars, histVars>>

\* "if read == write { return None; }".
C_Empty ==
    /\ UNCHANGED <<sysVars, builderSide, wrapSide>>
    /\ c_pc = "check"
    /\ EmptyAt(c_read, c_write)
    /\ c_ret' = [some |-> FALSE, value |-> Uninit]
    /\ c_pc' = "idle"
    /\ UNCHANGED <<ring, c_read, c_write, c_value, prodVars, histVars>>

\* Mutant of C_ReadSlot: the slot after the one at the read index is read.
C_ReadSlot_next_slot ==
    /\ UNCHANGED <<sysVars, builderSide, wrapSide>>
    /\ c_pc = "check"
    /\ ~EmptyAt(c_read, c_write)
    /\ LET slot == ring.storage[SlotIndex(wrapping_add(c_read), ring.cap)]
       IN  IF slot = Uninit
           THEN \E v \in RingValues : c_value' = v
           ELSE c_value' = slot
    /\ c_pc' = "store"
    /\ UNCHANGED <<ring, c_read, c_write, c_ret, prodVars, histVars>>

\* Not empty: "let value = ptr::read(ptr)" at index read % cap. Reading a slot
\* that was never written is undefined behaviour: any value may come out.
C_ReadSlot ==
    /\ UNCHANGED <<sysVars, builderSide, wrapSide>>
    /\ c_pc = "check"
    /\ ~EmptyAt(c_read, c_write)
    /\ LET slot == ring.storage[SlotIndex(c_read, ring.cap)]
       IN  IF slot = Uninit
           THEN \E v \in RingValues : c_value' = v
           ELSE c_value' = slot
    /\ c_pc' = "store"
    /\ UNCHANGED <<ring, c_read, c_write, c_ret, prodVars, histVars>>

\* Mutant of C_Store: the read index is advanced by two.
C_Store_by_two ==
    /\ UNCHANGED <<sysVars, builderSide, wrapSide>>
    /\ c_pc = "store"
    /\ ring' = [ring EXCEPT !.read_index = wrapping_add(wrapping_add(c_read))]
    /\ c_ret' = [some |-> TRUE, value |-> c_value]
    /\ c_pc' = "idle"
    /\ recvd' = Append(recvd, c_value)
    /\ room_made' = (room_made \/ c_on_full)
    /\ UNCHANGED <<c_read, c_write, c_value, prodVars, sent, send_calls,
                   send_done, recv_began, p_snap, p_after_room, c_on_full>>

\* "self.read_index.store(read.wrapping_add(1), Release); Some(value.assume_init())".
C_Store ==
    /\ UNCHANGED <<sysVars, builderSide, wrapSide>>
    /\ c_pc = "store"
    /\ ring' = [ring EXCEPT !.read_index = wrapping_add(c_read)]
    /\ c_ret' = [some |-> TRUE, value |-> c_value]
    /\ c_pc' = "idle"
    /\ recvd' = Append(recvd, c_value)
    /\ room_made' = (room_made \/ c_on_full)
    /\ UNCHANGED <<c_read, c_write, c_value, prodVars, sent, send_calls,
                   send_done, recv_began, p_snap, p_after_room, c_on_full>>

RingNext ==
    \/ P_LoadRead
    \/ P_LoadWrite
    \/ P_Full
    \/ P_WriteSlot
    \/ P_Store
    \/ C_LoadRead
    \/ C_LoadWrite
    \/ C_Empty
    \/ C_ReadSlot
    \/ C_Store

\* --------------------------------------------------- channels (whole calls)
\* RingBuffer::try_send(value) as one step: the ring afterwards and Ok / Err.
try_send(r, value) ==
    LET read  == r.read_index
        write == r.write_index
    IN  IF FullAt(write, read, r.cap)
        THEN [ok |-> FALSE, ring |-> r]
        ELSE [ok   |-> TRUE,
              ring |-> [r EXCEPT !.storage[SlotIndex(write, r.cap)] = value,
                                 !.write_index = wrapping_add(write)]]

\* RingBuffer::try_recv() as one step: Some(value) / None and the ring afterwards.
try_recv(r) ==
    LET read  == r.read_index
        write == r.write_index
    IN  IF EmptyAt(read, write)
        THEN [some |-> FALSE, value |-> Uninit, ring |-> r]
        ELSE [some  |-> TRUE,
              value |-> r.storage[SlotIndex(read, r.cap)],
              ring  |-> [r EXCEPT !.read_index = wrapping_add(read)]]

\* RingBuffer::is_empty().
is_empty(r) == EmptyAt(r.read_index, r.write_index)

\* RingBuffer::is_full().
is_full(r) == FullAt(r.write_index, r.read_index, r.cap)

\* ------------------------------------------------------- commands, events
NoOp == [kind |-> "NoOp", arg |-> 0]
SetGain(gain) == [kind |-> "SetGain", arg |-> gain]
Quit == [kind |-> "Quit", arg |-> 0]
Resume == [kind |-> "Resume", arg |-> 0]
\* Command::SwapGraph(plan): the command owns the plan of this id.
SwapGraph(id) == [kind |-> "SwapGraph", arg |-> id]
\* Event::GraphSwapped(prev): the event owns the plan of this id.
GraphSwapped(id) == [kind |-> "GraphSwapped", arg |-> id]
\* Event::StreamStopped.
StreamStopped == [kind |-> "StreamStopped", arg |-> 0]

\* The gains the control thread sets (the engine starts with InitialGain).
GainValues == {2, 3}

InitialGain == 1

\* The commands without a plan that the control thread sends ("quit",
\* "resume", "gain <n>").
PlainCommands == {Quit, Resume} \cup {SetGain(g) : g \in GainValues}

\* ------------------------------------------------------------------ bounds
\* Capacity of the command channel.
CmdCap == 2
\* Largest capacity of the event channel (the smallest is 1).
MaxEvtCap == 2
\* Number of plans the control thread compiles.
MaxPlans == 3
\* Number of commands the control thread tries to send.
MaxCmds == 3
\* Frames per block (DEFAULT_FRAME_COUNT, 512 in the code): the frame count
\* plans are compiled with and, the caller keeping to the construction
\* contract, the length of the slice process_audio is called with.
FrameCount == 2

\* Length of the engine's fallback scratch buffer (4096 in the code).
FALLBACK_SCRATCH_FRAMES == 4

PlanIds == 1..MaxPlans

\* main.rs, build_default_graph(freq_hz, gain): sine -> gain.
build_default_graph(freq_hz, gain) ==
    LET g0 == add_node(AudioGraph_new, SineGenerator_new(freq_hz, SampleRate))
        g1 == add_node(g0, GainProcessor_new(gain))
        g2 == add_edge(g1, 0, 1).graph
    IN  compile(g2, FrameCount)

\* main.rs, build_mixer_graph(freq1_hz, freq2_hz, gain1, gain2): two sines -> mixer.
build_mixer_graph(freq1_hz, freq2_hz, gain1, gain2) ==
    LET g0 == add_node(AudioGraph_new, SineGenerator_new(freq1_hz, SampleRate))
        g1 == add_node(g0, SineGenerator_new(freq2_hz, SampleRate))
        g2 == add_node(g1, Mixer_new(<<gain1, gain2>>))
        g3 == add_edge(g2, 0, 2).graph
        g4 == add_edge(g3, 1, 2).graph
    IN  compile(g4, FrameCount)

\* ----------------------------------------------------------------- engine
\* Engine::new(sample_rate, frequency_hz, initial_gain); current_graph 0 is None.
Engine_new(sample_rate, frequency_hz, initial_gain) ==
    [sine_generator   |-> SineGenerator_new(frequency_hz, sample_rate),
     gain_processor   |-> GainProcessor_new(initial_gain),
     should_quit      |-> FALSE,
     current_graph    |-> 0,
     fallback_scratch |-> AudioBuffer_new(FALLBACK_SCRATCH_FRAMES)]

\* Mutant of apply_command: a swap sends back the plan it installs instead
\* of the plan it displaces.
apply_command_sends_new(e, evt, cmd) ==
    CASE cmd.kind = "SetGain" ->
           [engine |-> [e EXCEPT !.gain_processor.gain = cmd.arg],
            evt_ring |-> evt, event |-> <<>>, dropped |-> 0]
      [] cmd.kind = "Quit" ->
           [engine |-> [e EXCEPT !.should_quit = TRUE],
            evt_ring |-> evt, event |-> <<>>, dropped |-> 0]
      [] cmd.kind = "Resume" ->
           [engine |-> [e EXCEPT !.should_quit = FALSE],
            evt_ring |-> evt, event |-> <<>>, dropped |-> 0]
      [] cmd.kind = "NoOp" ->
           [engine |-> e, evt_ring |-> evt, event |-> <<>>, dropped |-> 0]
      [] cmd.kind = "SwapGraph" ->
           LET prev == e.current_graph
               inst == [e EXCEPT !.current_graph = cmd.arg]
               r    == try_send(evt, GraphSwapped(cmd.arg))
           IN  IF prev = 0
               THEN [engine |-> inst, evt_ring |-> evt, event |-> <<>>, dropped |-> 0]
               ELSE IF r.ok
                    THEN [engine |-> inst, evt_ring |-> r.ring,
                          event |-> <<GraphSwapped(cmd.arg)>>, dropped |-> 0]
                    ELSE [engine |-> inst, evt_ring |-> evt,
                          event |-> <<>>, dropped |-> prev]

\* Mutant of apply_command: when the event channel is full a swap keeps the
\* active plan and drops the new one.
apply_command_keeps_on_full(e, evt, cmd) ==
    CASE cmd.kind = "SetGain" ->
           [engine |-> [e EXCEPT !.gain_processor.gain = cmd.arg],
            evt_ring |-> evt, event |-> <<>>, dropped |-> 0]
      [] cmd.kind = "Quit" ->
           [engine |-> [e EXCEPT !.should_quit = TRUE],
            evt_ring |-> evt, event |-> <<>>, dropped |-> 0]
      [] cmd.kind = "Resume" ->
           [engine |-> [e EXCEPT !.should_quit = FALSE],
            evt_ring |-> evt, event |-> <<>>, dropped |-> 0]
      [] cmd.kind = "NoOp" ->
           [engine |-> e, evt_ring |-> evt, event |-> <<>>, dropped |-> 0]
      [] cmd.kind = "SwapGraph" ->
           LET prev == e.current_graph
               inst == [e EXCEPT !.current_graph = cmd.arg]
               r    == try_send(evt, GraphSwapped(prev))
           IN  IF prev = 0
               THEN [engine |-> inst, evt_ring |-> evt, event |-> <<>>, dropped |-> 0]
               ELSE IF r.ok
                    THEN [engine |-> inst, evt_ring |-> r.ring,
                          event |-> <<GraphSwapped(prev)>>, dropped |-> 0]
                    ELSE [engine |-> e, evt_ring |-> evt,
                          event |-> <<>>, dropped |-> cmd.arg]

\* Mutant of apply_command: Resume does not clear the quit flag.
apply_command_no_resume(e, evt, cmd) ==
    CASE cmd.kind = "SetGain" ->
           [engine |-> [e EXCEPT !.gain_processor.gain = cmd.arg],
            evt_ring |-> evt, event |-> <<>>, dropped |-> 0]
      [] cmd.kind = "Quit" ->
           [engine |-> [e EXCEPT !.should_quit = TRUE],
            evt_ring |-> evt, event |-> <<>>, dropped |-> 0]
      [] cmd.kind = "Resume" ->
           [engine |-> e, evt_ring |-> evt, event |-> <<>>, dropped |-> 0]
      [] cmd.kind = "NoOp" ->
           [engine |-> e, evt_ring |-> evt, event |-> <<>>, dropped |-> 0]
      [] cmd.kind = "SwapGraph" ->
           LET prev == e.current_graph
               inst == [e EXCEPT !.current_graph = cmd.arg]
               r    == try_send(evt, GraphSwapped(prev))
           IN  IF prev = 0
               THEN [engine |-> inst, evt_ring |-> evt, event |-> <<>>, dropped |-> 0]
               ELSE IF r.ok
                    THEN [engine |-> inst, evt_ring |-> r.ring,
                          event |-> <<GraphSwapped(prev)>>, dropped |-> 0]
                    ELSE [engine |-> inst, evt_ring |-> evt,
                          event |-> <<>>, dropped |-> prev]

\* Mutant of apply_command: quit takes the active plan out of the engine.
apply_command_quit_unsets(e, evt, cmd) ==
    CASE cmd.kind = "SetGain" ->
           [engine |-> [e EXCEPT !.gain_processor.gain = cmd.arg],
            evt_ring |-> evt, event |-> <<>>, dropped |-> 0]
      [] cmd.kind = "Quit" ->
           [engine |-> [e EXCEPT !.should_quit = TRUE, !.current_graph = 0],
            evt_ring |-> evt, event |-> <<>>, dropped |-> 0]
      [] cmd.kind = "Resume" ->
           [engine |-> [e EXCEPT !.should_quit = FALSE],
            evt_ring |-> evt, event |-> <<>>, dropped |-> 0]
      [] cmd.kind = "NoOp" ->
           [engine |-> e, evt_ring |-> evt, event |-> <<>>, dropped |-> 0]
      [] cmd.kind = "SwapGraph" ->
           LET prev == e.current_graph
               inst == [e EXCEPT !.current_graph = cmd.arg]
               r    == try_send(evt, GraphSwapped(prev))
           IN  IF prev = 0
               THEN [engine |-> inst, evt_ring |-> evt, event |-> <<>>, dropped |-> 0]
               ELSE IF r.ok
                    THEN [engine |-> inst, evt_ring |-> r.ring,
                          event |-> <<GraphSwapped(prev)>>, dropped |-> 0]
                    ELSE [engine |-> inst, evt_ring |-> evt,
                          event |-> <<>>, dropped |-> prev]

\* Mutant of apply_command: quit tells the control thread that the stream
\* has stopped.
apply_command_quit_notifies(e, evt, cmd) ==
    CASE cmd.kind = "SetGain" ->
           [engine |-> [e EXCEPT !.gain_processor.gain = cmd.arg],
            evt_ring |-> evt, event |-> <<>>, dropped |-> 0]
      [] cmd.kind = "Quit" ->
           LET r == try_send(evt, StreamStopped)
           IN  [engine |-> [e EXCEPT !.should_quit = TRUE],
                evt_ring |-> r.ring,
                event |-> IF r.ok THEN <<StreamStopped>> ELSE <<>>,
                dropped |-> 0]
      [] cmd.kind = "Resume" ->
           [engine |-> [e EXCEPT !.should_quit = FALSE],
            evt_ring |-> evt, event |-> <<>>, dropped |-> 0]
      [] cmd.kind = "NoOp" ->
           [engine |-> e, evt_ring |-> evt, event |-> <<>>, dropped |-> 0]
      [] cmd.kind = "SwapGraph" ->
           LET prev == e.current_graph
               inst == [e EXCEPT !.current_graph = cmd.arg]
               r    == try_send(evt, GraphSwapped(prev))
           IN  IF prev = 0
               THEN [engine |-> inst, evt_ring |-> evt, event |-> <<>>, dropped |-> 0]
               ELSE IF r.ok
                    THEN [engine |-> inst, evt_ring |-> r.ring,
                          event |-> <<GraphSwapped(prev)>>, dropped |-> 0]
                    ELSE [engine |-> inst, evt_ring |-> evt,
                          event |-> <<>>, dropped |-> prev]

\* Engine::apply_command(cmd, evt_tx): the engine and the event channel
\* afterwards, the event sent (if any) and the plan dropped here (0: none):
\* "let _ = evt_tx.try_send(..)" drops the Err(event), and with it the
\* displaced plan, in the calling thread.
apply_command(e, evt, cmd) ==
    CASE cmd.kind = "SetGain" ->
           [engine |-> [e EXCEPT !.gain_processor.gain = cmd.arg],
            evt_ring |-> evt, event |-> <<>>, dropped |-> 0]
      [] cmd.kind = "Quit" ->
           [engine |-> [e EXCEPT !.should_quit = TRUE],
            evt_ring |-> evt, event |-> <<>>, dropped |-> 0]
      [] cmd.kind = "Resume" ->
           [engine |-> [e EXCEPT !.should_quit = FALSE],
            evt_ring |-> evt, event |-> <<>>, dropped |-> 0]
      [] cmd.kind = "NoOp" ->
           [engine |-> e, evt_ring |-> evt, event |-> <<>>, dropped |-> 0]
      [] cmd.kind = "SwapGraph" ->
           LET prev == e.current_graph
               inst == [e EXCEPT !.current_graph = cmd.arg]
               r    == try_send(evt, GraphSwapped(prev))
           IN  IF prev = 0
               THEN [engine |-> inst, evt_ring |-> evt, event |-> <<>>, dropped |-> 0]
               ELSE IF r.ok
                    THEN [engine |-> inst, evt_ring |-> r.ring,
                          event |-> <<GraphSwapped(prev)>>, dropped |-> 0]
                    ELSE [engine |-> inst, evt_ring |-> evt,
                          event |-> <<>>, dropped |-> prev]

\* Mutant of render_block: the fallback chain renders although a plan is set.
render_block_fallback_only(e, heap, out) ==
    LET n    == IF Len(out) <= Len(e.fallback_scratch)
                THEN Len(out) ELSE Len(e.fallback_scratch)
        sine == SineGenerator_process(e.sine_generator, <<>>,
                                      SubSeq(e.fallback_scratch, 1, n))
        gain == GainProcessor_process(e.gain_processor, <<sine.output>>,
                                      SubSeq(out, 1, n))
    IN  [engine |-> [e EXCEPT !.sine_generator = sine.node],
         heap |-> heap, output |-> gain.output, panicked |-> FALSE,
         allocs |-> 0,
         by |-> [kind |-> "fallback", id |-> 0]]

\* Mutant of render_block: the block of an active plan is scaled by the
\* fallback chain's gain.
render_block_gain_scales(e, heap, out) ==
    IF e.current_graph # 0
    THEN LET r == CompiledGraph_process(heap[e.current_graph], out)
         IN  [engine   |-> e,
              heap     |-> [heap EXCEPT ![e.current_graph] = r.graph],
              output   |-> [i \in 1..Len(r.output) |->
                               r.output[i] * e.gain_processor.gain],
              panicked |-> r.panicked,
              allocs   |-> r.allocs,
              by       |-> [kind |-> "plan", id |-> e.current_graph]]
    ELSE LET n    == IF Len(out) <= Len(e.fallback_scratch)
                     THEN Len(out) ELSE Len(e.fallback_scratch)
             sine == SineGenerator_process(e.sine_generator, <<>>,
                                           SubSeq(e.fallback_scratch, 1, n))
             gain == GainProcessor_process(e.gain_processor, <<sine.output>>,
                                           SubSeq(out, 1, n))
         IN  [engine   |-> [e EXCEPT
                              !.sine_generator = sine.node,
                              !.fallback_scratch =
                                  [i \in 1..Len(@) |->
                                      IF i <= n THEN sine.output[i] ELSE @[i]]],
              heap     |-> heap,
              output   |-> [i \in 1..Len(out) |->
                               IF i <= n THEN gain.output[i] ELSE 0],
              panicked |-> FALSE,
              allocs   |-> 0,
              by       |-> [kind |-> "fallback", id |-> 0]]

\* Mutant of render_block: the fallback branch leaves the samples beyond the
\* scratch length as they are.
render_block_keeps_tail(e, heap, out) ==
    IF e.current_graph # 0
    THEN LET r == CompiledGraph_process(heap[e.current_graph], out)
         IN  [engine   |-> e,
              heap     |-> [heap EXCEPT ![e.current_graph] = r.graph],
              output   |-> r.output,
              panicked |-> r.panicked,
              allocs   |-> r.allocs,
              by       |-> [kind |-> "plan", id |-> e.current_graph]]
    ELSE LET n    == IF Len(out) <= Len(e.fallback_scratch)
                     THEN Len(out) ELSE Len(e.fallback_scratch)
             sine == SineGenerator_process(e.sine_generator, <<>>,
                                           SubSeq(e.fallback_scratch, 1, n))
             gain == GainProcessor_process(e.gain_processor, <<sine.output>>,
                                           SubSeq(out, 1, n))
         IN  [engine   |-> [e EXCEPT
                              !.sine_generator = sine.node,
                              !.fallback_scratch =
                                  [i \in 1..Len(@) |->
                                      IF i <= n THEN sine.output[i] ELSE @[i]]],
              heap     |-> heap,
              output   |-> [i \in 1..Len(out) |->
                               IF i <= n THEN gain.output[i] ELSE out[i]],
              panicked |-> FALSE,
              allocs   |-> 0,
              by       |-> [kind |-> "fallback", id |-> 0]]

\* Engine::render_block(output): the engine, the heap and the output slice
\* afterwards, the heap blocks taken and freed on the way, and which of the
\* two branches ran.
render_block(e, heap, out) ==
    IF e.current_graph # 0
    THEN LET r == CompiledGraph_process(heap[e.current_graph], out)
         IN  [engine   |-> e,
              heap     |-> [heap EXCEPT ![e.current_graph] = r.graph],
              output   |-> r.output,
              panicked |-> r.panicked,
              allocs   |-> r.allocs,
              by       |-> [kind |-> "plan", id |-> e.current_graph]]
    ELSE LET n    == IF Len(out) <= Len(e.fallback_scratch)
                     THEN Len(out) ELSE Len(e.fallback_scratch)
             sine == SineGenerator_process(e.sine_generator, <<>>,
                                           SubSeq(e.fallback_scratch, 1, n))
             gain == GainProcessor_process(e.gain_processor, <<sine.output>>,
                                           SubSeq(out, 1, n))
         IN  [engine   |-> [e EXCEPT
                              !.sine_generator = sine.node,
                              !.fallback_scratch =
                                  [i \in 1..Len(@) |->
                                      IF i <= n THEN sine.output[i] ELSE @[i]]],
              heap     |-> heap,
              output   |-> [i \in 1..Len(out) |->
                               IF i <= n THEN gain.output[i] ELSE 0],
              panicked |-> FALSE,
              allocs   |-> 0,
              by       |-> [kind |-> "fallback", id |-> 0]]

\* ------------------------------------------------------------ the system
NoRender == [kind |-> "none", id |-> 0]

\* What the caller's slice holds when process_audio is called.
CallerFill == 7

\* command_channel(c), event_channel(e), Engine::new(..): nothing sent yet.
SysStart(cmd_caps, evt_caps) ==
    /\ \E c \in cmd_caps : cmd_ring = RingBuffer_new(c)
    /\ \E c \in evt_caps : evt_ring = RingBuffer_new(c)
    /\ engine = Engine_new(SampleRate, 1, InitialGain)
    /\ plans = [id \in PlanIds |-> NoGraph]
    /\ plan_status = [id \in PlanIds |-> "none"]
    /\ ctl_held = 0
    /\ a_pc = "idle"
    /\ output = [i \in 1..FrameCount |-> CallerFill]
    /\ attempts = 0
    /\ sent_log = <<>> /\ applied_log = <<>>
    /\ evt_log = <<>> /\ evt_recvd = <<>>
    /\ a_must = 0 /\ drain_swaps = <<>>
    /\ rendered_by = NoRender

\* Nothing sent yet.
WrapStart == w_unread = <<>>

\* AudioGraph::new() in the hands of a client that has called nothing yet.
BuilderStart ==
    /\ graph = AudioGraph_new
    /\ b_pc = "ready"
    /\ b_last = [op |-> "new"]

\* ---- control thread (main.rs)
\* "cmd_tx.try_send(Command::..)" of a command without a plan; an Err is dropped.
Ctl_SendCommand ==
    /\ UNCHANGED <<ringSide, builderSide, wrapSide>>
    /\ attempts < MaxCmds
    /\ \E cmd \in PlainCommands :
          LET r == try_send(cmd_ring, cmd)
          IN  /\ cmd_ring' = r.ring
              /\ sent_log' = IF r.ok THEN Append(sent_log, cmd) ELSE sent_log
    /\ attempts' = attempts + 1
    /\ UNCHANGED <<evt_ring, engine, plans, plan_status, ctl_held, a_pc, output,
                   applied_log, evt_log, evt_recvd, a_must, drain_swaps, rendered_by>>

\* The "graph" line: "build_default_graph(..)" puts a new plan on the heap,
\* held by the control thread.
Ctl_Compile ==
    /\ UNCHANGED <<ringSide, builderSide, wrapSide>>
    /\ ctl_held = 0
    /\ attempts < MaxCmds
    /\ \E id \in PlanIds :
          /\ plan_status[id] = "none"
          /\ \A j \in PlanIds : j < id => plan_status[j] # "none"
          /\ LET c == build_default_graph(1, 2)
             IN  /\ c.ok
                 /\ plans' = [plans EXCEPT ![id] = c.graph]
          /\ plan_status' = [plan_status EXCEPT ![id] = "live"]
          /\ ctl_held' = id
    /\ UNCHANGED <<cmd_ring, evt_ring, engine, a_pc, output, attempts, sent_log,
                   applied_log, evt_log, evt_recvd, a_must, drain_swaps, rendered_by>>

\* "let _ = cmd_tx.try_send(Command::SwapGraph(compiled))": on Err the command
\* comes back and is dropped here, the plan with it.
Ctl_SendSwap ==
    /\ UNCHANGED <<ringSide, builderSide, wrapSide>>
    /\ ctl_held # 0
    /\ attempts < MaxCmds
    /\ LET r == try_send(cmd_ring, SwapGraph(ctl_held))
       IN  /\ cmd_ring' = r.ring
           /\ sent_log' = IF r.ok THEN Append(sent_log, SwapGraph(ctl_held))
                          ELSE sent_log
           /\ plan_status' = IF r.ok THEN plan_status
                             ELSE [plan_status EXCEPT ![ctl_held] = "dropped_control"]
           /\ plans' = IF r.ok THEN plans ELSE [plans EXCEPT ![ctl_held] = NoGraph]
    /\ ctl_held' = 0
    /\ attempts' = attempts + 1
    /\ UNCHANGED <<evt_ring, engine, a_pc, output, applied_log, evt_log,
                   evt_recvd, a_must, drain_swaps, rendered_by>>

\* "while let Some(evt) = evt_rx.try_recv() { match evt { GraphSwapped(_) => {} .. } }":
\* one event taken and dropped, the displaced plan with it.
Ctl_RecvEvent ==
    /\ UNCHANGED <<ringSide, builderSide, wrapSide>>
    /\ LET r == try_recv(evt_ring)
       IN  /\ r.some
           /\ evt_ring' = r.ring
           /\ evt_recvd' = Append(evt_recvd, r.value)
           /\ plan_status' = IF r.value.kind = "GraphSwapped"
                             THEN [plan_status EXCEPT ![r.value.arg] = "dropped_control"]
                             ELSE plan_status
           /\ plans' = IF r.value.kind = "GraphSwapped"
                       THEN [plans EXCEPT ![r.value.arg] = NoGraph]
                       ELSE plans
    /\ UNCHANGED <<cmd_ring, engine, ctl_held, a_pc, output, attempts, sent_log,
                   applied_log, evt_log, a_must, drain_swaps,
                   rendered_by>>

\* ---- audio thread: Engine::process_audio(cmd_rx, evt_tx, output)
\* The callback is invoked with the caller's slice.
Audio_Begin ==
    /\ UNCHANGED <<ringSide, builderSide, wrapSide>>
    /\ a_pc = "idle"
    /\ a_pc' = "drain"
    /\ output' = [i \in 1..FrameCount |-> CallerFill]
    /\ a_must' = Len(sent_log)
    /\ drain_swaps' = <<>>
    /\ UNCHANGED <<cmd_ring, evt_ring, engine, plans, plan_status, ctl_held,
                   attempts, sent_log, applied_log, evt_log, evt_recvd,
                   rendered_by>>

\* drain_commands: "while let Some(cmd) = cmd_rx.try_recv() { self.apply_command(cmd, evt_tx) }",
\* one iteration.
Audio_DrainCommand ==
    /\ UNCHANGED <<ringSide, builderSide, wrapSide>>
    /\ a_pc = "drain"
    /\ LET r == try_recv(cmd_ring)
           a == apply_command(engine, evt_ring, r.value)
       IN  /\ r.some
           /\ cmd_ring' = r.ring
           /\ engine' = a.engine
           /\ evt_ring' = a.evt_ring
           /\ evt_log' = evt_log \o a.event
           /\ plan_status' = IF a.dropped # 0
                             THEN [plan_status EXCEPT ![a.dropped] = "dropped_audio"]
                             ELSE plan_status
           /\ plans' = IF a.dropped # 0
                       THEN [plans EXCEPT ![a.dropped] = NoGraph]
                       ELSE plans
           /\ applied_log' = Append(applied_log, r.value)
           /\ drain_swaps' = IF r.value.kind = "SwapGraph"
                             THEN Append(drain_swaps, r.value.arg)
                             ELSE drain_swaps
    /\ UNCHANGED <<ctl_held, a_pc, output, attempts, sent_log, evt_recvd, a_must,
                   rendered_by>>

\* Mutant of Audio_DrainEnd: the drain loop may stop while commands are pending.
Audio_DrainEnd_early ==
    /\ UNCHANGED <<ringSide, builderSide, wrapSide>>
    /\ a_pc = "drain"
    /\ a_pc' = "render"
    /\ UNCHANGED <<cmd_ring, evt_ring, engine, plans, plan_status, ctl_held,
                   output, attempts, sent_log, applied_log, evt_log, evt_recvd,
                   a_must, drain_swaps, rendered_by>>

\* drain_commands: try_recv returns None and the loop ends.
Audio_DrainEnd ==
    /\ UNCHANGED <<ringSide, builderSide, wrapSide>>
    /\ a_pc = "drain"
    /\ ~try_recv(cmd_ring).some
    /\ a_pc' = "render"
    /\ UNCHANGED <<cmd_ring, evt_ring, engine, plans, plan_status, ctl_held,
                   output, attempts, sent_log, applied_log, evt_log, evt_recvd,
                   a_must, drain_swaps, rendered_by>>

\* Mutant of Audio_Render: a quit still waiting in the command channel already
\* silences the block.
Audio_Render_peeks_quit ==
    /\ UNCHANGED <<ringSide, builderSide, wrapSide>>
    /\ a_pc = "render"
    /\ IF engine.should_quit
          \/ (try_recv(cmd_ring).some /\ try_recv(cmd_ring).value = Quit)
       THEN /\ output' = [i \in 1..Len(output) |-> 0]
            /\ rendered_by' = [kind |-> "silence", id |-> 0]
            /\ a_pc' = "idle"
            /\ UNCHANGED <<engine, plans>>
       ELSE LET r == render_block(engine, plans, output)
            IN  /\ engine' = r.engine
                /\ plans' = r.heap
                /\ output' = r.output
                /\ rendered_by' = r.by
                /\ a_pc' = IF r.panicked THEN "panicked" ELSE "idle"
    /\ UNCHANGED <<cmd_ring, evt_ring, plan_status, ctl_held, attempts, sent_log,
                   applied_log, evt_log, evt_recvd, a_must, drain_swaps>>

\* Mutant of Audio_Render: the block is rendered also while quitting, and
\* then silenced.
Audio_Render_runs_nodes ==
    /\ UNCHANGED <<ringSide, builderSide, wrapSide>>
    /\ a_pc = "render"
    /\ LET r == render_block(engine, plans, output)
       IN  /\ engine' = r.engine
           /\ plans' = r.heap
           /\ output' = IF engine.should_quit
                        THEN [i \in 1..Len(output) |-> 0]
                        ELSE r.output
           /\ rendered_by' = IF engine.should_quit
                             THEN [kind |-> "silence", id |-> 0]
                             ELSE r.by
           /\ a_pc' = IF r.panicked THEN "panicked" ELSE "idle"
    /\ UNCHANGED <<cmd_ring, evt_ring, plan_status, ctl_held, attempts, sent_log,
                   applied_log, evt_log, evt_recvd, a_must, drain_swaps>>

\* "if self.should_quit() { zero-fill } else { self.render_block(output) }".
Audio_Render ==
    /\ UNCHANGED <<ringSide, builderSide, wrapSide>>
    /\ a_pc = "render"
    /\ IF engine.should_quit
       THEN /\ output' = [i \in 1..Len(output) |-> 0]
            /\ rendered_by' = [kind |-> "silence", id |-> 0]
            /\ a_pc' = "idle"
            /\ UNCHANGED <<engine, plans>>
       ELSE LET r == render_block(engine, plans, output)
            IN  /\ engine' = r.engine
                /\ plans' = r.heap
                /\ output' = r.output
                /\ rendered_by' = r.by
                /\ a_pc' = IF r.panicked THEN "panicked" ELSE "idle"
    /\ UNCHANGED <<cmd_ring, evt_ring, plan_status, ctl_held, attempts, sent_log,
                   applied_log, evt_log, evt_recvd, a_must, drain_swaps>>

Next ==
    \/ Ctl_SendCommand
    \/ Ctl_Compile
    \/ Ctl_SendSwap
    \/ Ctl_RecvEvent
    \/ Audio_Begin
    \/ Audio_DrainCommand
    \/ Audio_DrainEnd
    \/ Audio_Render

\* ---- the drain loop against a control thread that never stops sending
\* The control thread's read-line loop: one more "cmd_tx.try_send(Command::..)"
\* of a command without a plan, an Err dropped. No count of sends is kept: the
\* loop runs for as long as lines arrive.
Live_Send ==
    /\ UNCHANGED <<ringSide, builderSide, wrapSide>>
    /\ \E cmd \in PlainCommands : cmd_ring' = try_send(cmd_ring, cmd).ring
    /\ UNCHANGED <<evt_ring, engine, plans, plan_status, ctl_held, a_pc, output,
                   attempts, sent_log, applied_log, evt_log, evt_recvd, a_must,
                   drain_swaps, rendered_by>>

\* drain_commands, one iteration of "while let Some(cmd) = cmd_rx.try_recv()
\* { self.apply_command(cmd, evt_tx) }" on a command without a plan.
Live_Drain ==
    /\ UNCHANGED <<ringSide, builderSide, wrapSide>>
    /\ a_pc = "drain"
    /\ LET r == try_recv(cmd_ring)
           a == apply_command(engine, evt_ring, r.value)
       IN  /\ r.some
           /\ cmd_ring' = r.ring
           /\ engine' = a.engine
           /\ evt_ring' = a.evt_ring
    /\ UNCHANGED <<plans, plan_status, ctl_held, a_pc, output, attempts, sent_log,
                   applied_log, evt_log, evt_recvd, a_must, drain_swaps,
                   rendered_by>>

DrainNext ==
    \/ Live_Send
    \/ Audio_Begin
    \/ Live_Drain
    \/ Audio_DrainEnd
    \/ Audio_Render

DrainInit == RingStart({1}) /\ SysStart({CmdCap}, {1}) /\ BuilderStart /\ WrapStart

\* The audio callback runs on its own thread: once invoked it keeps taking
\* its steps, whatever the control thread does (weak fairness of the audio
\* thread's steps). Nothing is assumed of the control thread.
DrainSpec ==
    /\ DrainInit
    /\ [][DrainNext]_vars
    /\ WF_vars(Live_Drain \/ Audio_DrainEnd)
    /\ WF_vars(Audio_Render)

\* ---- whole calls of the engine, as a client on one thread makes them
\* drain_commands as one call: every command try_recv returns is applied, in
\* order, until try_recv returns None. `applied` lists the commands, `events`
\* the events sent, `dropped` the plans dropped because the event channel
\* was full.
RECURSIVE drain_commands(_, _, _)
drain_commands(e, cmd_rx, evt_tx) ==
    LET r == try_recv(cmd_rx)
    IN  IF ~r.some
        THEN [engine |-> e, cmd_ring |-> cmd_rx, evt_ring |-> evt_tx,
              applied |-> <<>>, events |-> <<>>, dropped |-> <<>>]
        ELSE LET a    == apply_command(e, evt_tx, r.value)
                 rest == drain_commands(a.engine, r.ring, a.evt_ring)
             IN  [rest EXCEPT
                    !.applied = <<r.value>> \o @,
                    !.events  = a.event \o @,
                    !.dropped = (IF a.dropped # 0 THEN <<a.dropped>> ELSE <<>>) \o @]

\* The heap after the plans in `ids` were dropped.
DropPlans(heap, ids) ==
    [id \in DOMAIN heap |->
        IF \E k \in 1..Len(ids) : ids[k] = id THEN NoGraph ELSE heap[id]]

\* process_audio as one call: "self.drain_commands(cmd_rx, evt_tx); if
\* self.should_quit() { zero-fill } else { self.render_block(output) }".
process_audio(e, cmd_rx, evt_tx, heap, out) ==
    LET d == drain_commands(e, cmd_rx, evt_tx)
        h == DropPlans(heap, d.dropped)
        r == render_block(d.engine, h, out)
    IN  IF d.engine.should_quit
        THEN [engine |-> d.engine, cmd_ring |-> d.cmd_ring, evt_ring |-> d.evt_ring,
              heap |-> h, output |-> [i \in 1..Len(out) |-> 0],
              panicked |-> FALSE, by |-> [kind |-> "silence", id |-> 0],
              applied |-> d.applied, dropped |-> d.dropped]
        ELSE [engine |-> r.engine, cmd_ring |-> d.cmd_ring, evt_ring |-> d.evt_ring,
              heap |-> r.heap, output |-> r.output,
              panicked |-> r.panicked, by |-> r.by,
              applied |-> d.applied, dropped |-> d.dropped]

\* One ring of capacity 1..MaxCap with its producer and consumer; the engine
\* side stays as constructed.
RingInit == RingStart(1..MaxCap) /\ SysStart({1}, {1}) /\ BuilderStart /\ WrapStart

RingSpec == RingInit /\ [][RingNext]_vars

\* The control thread, the two channels and the engine; the free-standing
\* ring stays as constructed.
Init == RingStart({1}) /\ SysStart({CmdCap}, {1, MaxEvtCap}) /\ BuilderStart /\ WrapStart

Spec == Init /\ [][Next]_vars

\* ------------------------------------------------------------ the builder
\* A single-threaded client of AudioGraph, CompiledGraph and Engine, as in the
\* tests of graph.rs and engine.rs: it adds nodes and edges, sorts, compiles,
\* runs a compiled plan on a slice, or installs it in the engine and renders.

\* Most nodes a client adds.
MaxNodes == 3
\* Most edges a client adds.
MaxEdges == 3
\* Largest frame count a plan is compiled with (the smallest is 0).
MaxFrames == 2
\* Longest output slice a plan is run on (the shortest is empty).
MaxOut == 3

\* The nodes a client adds.
NodeMenu == {SineGenerator_new(1, SampleRate), GainProcessor_new(2)}

RECURSIVE EdgeCountFrom(_, _)
\* The number of edges stored in the adjacency lists a..Len(adjacency).
EdgeCountFrom(g, a) ==
    IF a > Len(g.adjacency) THEN 0
    ELSE Len(g.adjacency[a]) + EdgeCountFrom(g, a + 1)

\* The slice a client passes: len samples of its own.
CallerSlice(len) == [i \in 1..len |-> CallerFill]

\* Mutant of Bld_AddNode: the plan the client holds shares the builder's node
\* list, so the new node shows up in it.
Bld_AddNode_aliased ==
    /\ UNCHANGED <<ringSide, wrapSide>>
    /\ b_pc = "ready"
    /\ Len(graph.nodes) < MaxNodes
    /\ \E node \in NodeMenu :
          /\ graph' = add_node(graph, node)
          /\ plans' = IF ctl_held # 0
                      THEN [plans EXCEPT ![ctl_held].nodes = Append(@, node)]
                      ELSE plans
    /\ b_last' = [op |-> "add_node"]
    /\ UNCHANGED b_pc
    /\ UNCHANGED <<cmd_ring, evt_ring, engine, plan_status, ctl_held, a_pc,
                   output, attempts, sent_log, applied_log, evt_log, evt_recvd,
                   a_must, drain_swaps, rendered_by>>

\* "g.add_node(node)".
Bld_AddNode ==
    /\ UNCHANGED <<ringSide, sysVars, wrapSide>>
    /\ b_pc = "ready"
    /\ Len(graph.nodes) < MaxNodes
    /\ \E node \in NodeMenu : graph' = add_node(graph, node)
    /\ b_last' = [op |-> "add_node"]
    /\ UNCHANGED b_pc

\* "g.add_edge(NodeId::new(from), NodeId::new(to))": NodeId::new takes any index.
Bld_AddEdge ==
    /\ UNCHANGED <<ringSide, sysVars, wrapSide>>
    /\ b_pc = "ready"
    /\ EdgeCountFrom(graph, 1) < MaxEdges
    /\ \E from, to \in 0..(MaxNodes - 1) :
          LET r == add_edge(graph, from, to)
          IN  /\ graph' = r.graph
              /\ b_pc' = IF r.panicked THEN "panicked" ELSE "ready"
              /\ b_last' = [op |-> "add_edge"]

\* "g.topological_sort()".
Bld_Sort ==
    /\ UNCHANGED <<ringSide, sysVars, wrapSide>>
    /\ b_pc = "ready"
    /\ LET r == topological_sort(graph)
       IN  b_last' = [op |-> "sort", ok |-> r.ok, order |-> r.order]
    /\ UNCHANGED <<graph, b_pc>>

\* "g.compile(frame_count)": the client keeps the plan, if there is one.
Bld_Compile ==
    /\ UNCHANGED <<ringSide, sysVars, wrapSide>>
    /\ b_pc = "ready"
    /\ \E frame_count \in 0..MaxFrames :
          LET r == compile(graph, frame_count)
          IN  b_last' = [op |-> "compile", ok |-> r.ok, plan |-> r.graph,
                         frame_count |-> frame_count]
    /\ UNCHANGED <<graph, b_pc>>

\* "compiled.process(&mut output)" on the plan just compiled.
Bld_Process ==
    /\ UNCHANGED <<ringSide, sysVars, wrapSide>>
    /\ b_pc = "ready"
    /\ b_last.op = "compile" /\ b_last.ok
    /\ \E len \in 0..MaxOut :
          LET r == CompiledGraph_process(b_last.plan, CallerSlice(len))
          IN  /\ b_last' = [op |-> "process", plan |-> r.graph,
                            frame_count |-> b_last.frame_count,
                            output |-> r.output, panicked |-> r.panicked]
              /\ b_pc' = IF r.panicked THEN "panicked" ELSE "ready"
    /\ UNCHANGED graph

\* "let compiled = g.compile(..).unwrap(); engine.apply_command(Command::SwapGraph(compiled), &evt_tx)"
\* with a sine -> gain graph of the client's own making, the first plan this
\* engine gets.
Bld_Install ==
    /\ UNCHANGED <<ringSide, wrapSide>>
    /\ b_pc = "ready"
    /\ plan_status[1] = "none"
    /\ LET c == build_default_graph(1, 2)
           a == apply_command(engine, evt_ring, SwapGraph(1))
       IN  /\ c.ok
           /\ plans' = [plans EXCEPT ![1] = c.graph]
           /\ engine' = a.engine
           /\ evt_ring' = a.evt_ring
    /\ plan_status' = [plan_status EXCEPT ![1] = "live"]
    /\ b_last' = [op |-> "install"]
    /\ UNCHANGED <<graph, b_pc>>
    /\ UNCHANGED <<cmd_ring, ctl_held, a_pc, output, attempts, sent_log,
                   applied_log, evt_log, evt_recvd, a_must, drain_swaps,
                   rendered_by>>

\* "engine.render_block(&mut buf)", the first block of the installed plan.
Bld_Render ==
    /\ UNCHANGED <<ringSide, wrapSide>>
    /\ b_pc = "ready"
    /\ engine.current_graph # 0
    /\ rendered_by = NoRender
    /\ \E len \in 0..MaxOut :
          LET r == render_block(engine, plans, CallerSlice(len))
          IN  /\ engine' = r.engine
              /\ plans' = r.heap
              /\ output' = r.output
              /\ rendered_by' = r.by
              /\ b_pc' = IF r.panicked THEN "panicked" ELSE "ready"
              /\ b_last' = [op |-> "render", panicked |-> r.panicked]
    /\ UNCHANGED graph
    /\ UNCHANGED <<cmd_ring, evt_ring, plan_status, ctl_held, a_pc, attempts,
                   sent_log, applied_log, evt_log, evt_recvd, a_must,
                   drain_swaps>>

GraphNext ==
    \/ Bld_AddNode
    \/ Bld_AddEdge
    \/ Bld_Sort
    \/ Bld_Compile
    \/ Bld_Process
    \/ Bld_Install
    \/ Bld_Render

\* The builder and a fresh engine; the free-standing ring and the control
\* thread stay as constructed.
GraphInit == RingStart({1}) /\ SysStart({1}, {1}) /\ BuilderStart /\ WrapStart

GraphSpec == GraphInit /\ [][GraphNext]_vars

\* ---- CallSpec: one client thread making whole calls
\* The plans a client builds: the empty builder compiled, and sine -> gain.
PlanMenu == {compile(AudioGraph_new, FrameCount), build_default_graph(1, 2)}

\* "cmd_tx.try_send(Command::..)" of a command without a plan, an Err dropped.
Call_Send ==
    /\ UNCHANGED <<ringSide, wrapSide>>
    /\ b_pc = "ready"
    /\ attempts < MaxCmds
    /\ \E cmd \in PlainCommands : cmd_ring' = try_send(cmd_ring, cmd).ring
    /\ attempts' = attempts + 1
    /\ b_last' = [op |-> "send"]
    /\ UNCHANGED <<graph, b_pc>>
    /\ UNCHANGED <<evt_ring, engine, plans, plan_status, ctl_held, a_pc, output,
                   sent_log, applied_log, evt_log, evt_recvd, a_must,
                   drain_swaps, rendered_by>>

\* "let compiled = g.compile(frame_count).unwrap()": the client holds a plan.
Call_Compile ==
    /\ UNCHANGED <<ringSide, wrapSide>>
    /\ b_pc = "ready"
    /\ ctl_held = 0
    /\ plan_status[1] = "none"
    /\ \E c \in PlanMenu :
          /\ c.ok
          /\ plans' = [plans EXCEPT ![1] = c.graph]
    /\ plan_status' = [plan_status EXCEPT ![1] = "live"]
    /\ ctl_held' = 1
    /\ b_last' = [op |-> "compile"]
    /\ UNCHANGED <<graph, b_pc>>
    /\ UNCHANGED <<cmd_ring, evt_ring, engine, a_pc, output, attempts, sent_log,
                   applied_log, evt_log, evt_recvd, a_must, drain_swaps,
                   rendered_by>>

\* "compiled.process(&mut buf)" on the plan the client holds.
Call_Process ==
    /\ UNCHANGED <<ringSide, wrapSide>>
    /\ b_pc = "ready"
    /\ ctl_held # 0
    /\ \E len \in 0..MaxOut :
          LET r == CompiledGraph_process(plans[ctl_held], CallerSlice(len))
          IN  /\ plans' = [plans EXCEPT ![ctl_held] = r.graph]
              /\ output' = r.output
              /\ b_pc' = IF r.panicked THEN "panicked" ELSE "ready"
    /\ b_last' = [op |-> "process"]
    /\ UNCHANGED graph
    /\ UNCHANGED <<cmd_ring, evt_ring, engine, plan_status, ctl_held, a_pc,
                   attempts, sent_log, applied_log, evt_log, evt_recvd, a_must,
                   drain_swaps, rendered_by>>

\* "engine.apply_command(Command::SwapGraph(compiled), &evt_tx)": the plan moves
\* into the engine.
Call_Install ==
    /\ UNCHANGED <<ringSide, wrapSide>>
    /\ b_pc = "ready"
    /\ ctl_held # 0
    /\ LET a == apply_command(engine, evt_ring, SwapGraph(ctl_held))
       IN  /\ engine' = a.engine
           /\ evt_ring' = a.evt_ring
    /\ ctl_held' = 0
    /\ b_last' = [op |-> "install"]
    /\ UNCHANGED <<graph, b_pc>>
    /\ UNCHANGED <<cmd_ring, plans, plan_status, a_pc, output, attempts, sent_log,
                   applied_log, evt_log, evt_recvd, a_must, drain_swaps,
                   rendered_by>>

\* "engine.process_audio(&cmd_rx, &evt_tx, &mut buf)" on a slice of the
\* caller's, once the client has installed its plan.
Call_ProcessAudio ==
    /\ UNCHANGED <<ringSide, wrapSide>>
    /\ b_pc = "ready"
    /\ engine.current_graph # 0
    /\ \E len \in 0..MaxOut :
          \E r \in {process_audio(engine, cmd_ring, evt_ring, plans, CallerSlice(len))} :
              /\ engine' = r.engine
              /\ cmd_ring' = r.cmd_ring
              /\ evt_ring' = r.evt_ring
              /\ plans' = r.heap
              /\ plan_status' = [id \in PlanIds |->
                                    IF \E k \in 1..Len(r.dropped) : r.dropped[k] = id
                                    THEN "dropped_audio" ELSE plan_status[id]]
              /\ output' = r.output
              /\ rendered_by' = r.by
              /\ b_pc' = IF r.panicked THEN "panicked" ELSE "ready"
    /\ b_last' = [op |-> "process_audio"]
    /\ UNCHANGED graph
    /\ UNCHANGED <<ctl_held, a_pc, attempts, sent_log, applied_log, evt_log,
                   evt_recvd, a_must, drain_swaps>>

CallNext ==
    \/ Call_Send
    \/ Call_Compile
    \/ Call_Process
    \/ Call_Install
    \/ Call_ProcessAudio

CallInit == RingStart({1}) /\ SysStart({CmdCap}, {1}) /\ BuilderStart /\ WrapStart

CallSpec == CallInit /\ [][CallNext]_vars

\* ---- SnapshotSpec: the builder is changed after it was compiled
\* "let compiled = g.compile(frame_count)": on Ok the client holds the plan (a
\* plan held from an earlier compile is dropped), on Err it holds what it held.
Snap_Compile ==
    /\ UNCHANGED <<ringSide, wrapSide>>
    /\ b_pc = "ready"
    /\ \E frame_count \in 0..MaxFrames :
          LET r == compile(graph, frame_count)
          IN  /\ plans' = IF r.ok THEN [plans EXCEPT ![1] = r.graph] ELSE plans
              /\ plan_status' = IF r.ok THEN [plan_status EXCEPT ![1] = "live"]
                                ELSE plan_status
              /\ ctl_held' = IF r.ok THEN 1 ELSE ctl_held
              /\ b_last' = [op |-> "compile", ok |-> r.ok,
                            frame_count |-> frame_count]
    /\ UNCHANGED <<graph, b_pc>>
    /\ UNCHANGED <<cmd_ring, evt_ring, engine, a_pc, output, attempts, sent_log,
                   applied_log, evt_log, evt_recvd, a_must, drain_swaps,
                   rendered_by>>

SnapNext ==
    \/ Bld_AddNode
    \/ Bld_AddEdge
    \/ Snap_Compile

SnapInit == RingStart({1}) /\ SysStart({1}, {1}) /\ BuilderStart /\ WrapStart

SnapshotSpec == SnapInit /\ [][SnapNext]_vars

\* ---- FallbackSpec: the engine without a plan
\* Longest slice handed to render_block; longer than the fallback scratch.
MaxBlock == 6

\* "engine.apply_command(Command::SetGain(g), &evt_tx)".
Fb_SetGain ==
    /\ UNCHANGED <<ringSide, wrapSide>>
    /\ \E g \in GainValues :
          LET a == apply_command(engine, evt_ring, SetGain(g))
          IN  /\ engine' = a.engine
              /\ evt_ring' = a.evt_ring
    /\ b_last' = [op |-> "set_gain"]
    /\ UNCHANGED <<graph, b_pc>>
    /\ UNCHANGED <<cmd_ring, plans, plan_status, ctl_held, a_pc, output, attempts,
                   sent_log, applied_log, evt_log, evt_recvd, a_must,
                   drain_swaps, rendered_by>>

\* "engine.render_block(&mut buf)" on a slice of the caller's, no plan installed.
Fb_Render ==
    /\ UNCHANGED <<ringSide, wrapSide>>
    /\ \E len \in 0..MaxBlock :
          LET r == render_block(engine, plans, CallerSlice(len))
          IN  /\ engine' = r.engine
              /\ plans' = r.heap
              /\ output' = r.output
              /\ rendered_by' = r.by
              /\ b_last' = [op |-> "render_block", len |-> len]
    /\ UNCHANGED <<graph, b_pc>>
    /\ UNCHANGED <<cmd_ring, evt_ring, plan_status, ctl_held, a_pc, attempts,
                   sent_log, applied_log, evt_log, evt_recvd, a_must,
                   drain_swaps>>

FallbackNext ==
    \/ Fb_SetGain
    \/ Fb_Render

FallbackInit == RingStart({1}) /\ SysStart({1}, {1}) /\ BuilderStart /\ WrapStart

FallbackSpec == FallbackInit /\ [][FallbackNext]_vars

\* ---- GainSpec: GainProcessor::process on its own
\* Longest slice handed to the node.
MaxSlice == 3

\* Sample values in the slices.
SampleMenu == {1, 2}

\* The slices of up to n samples.
SlicesUpTo(n) == UNION {[1..k -> SampleMenu] : k \in 0..n}

\* The input lists: none, one slice, or that slice and a second one.
InputMenu ==
    {<<>>} \cup {<<inp>> : inp \in SlicesUpTo(MaxSlice)}
           \cup {<<inp, <<2>> >> : inp \in SlicesUpTo(MaxSlice)}

\* A gain node, its inputs and the caller's output slice, before the call.
GainStart ==
    /\ graph = AudioGraph_new
    /\ b_pc = "ready"
    /\ \E g \in GainValues \cup {InitialGain}, ins \in InputMenu,
          out \in SlicesUpTo(MaxSlice) :
          b_last = [op |-> "gain_call", node |-> GainProcessor_new(g),
                    inputs |-> ins, output |-> out]

\* "gain.process(&inputs, &mut output)".
Gain_Process ==
    /\ UNCHANGED <<ringSide, sysVars, wrapSide>>
    /\ b_last.op = "gain_call"
    /\ LET r == GainProcessor_process(b_last.node, b_last.inputs, b_last.output)
       IN  b_last' = [op |-> "gain_done", node |-> b_last.node,
                      inputs |-> b_last.inputs, before |-> b_last.output,
                      node_after |-> r.node, after |-> r.output]
    /\ UNCHANGED <<graph, b_pc>>

\* The next call: the slice just written is handed in again, with no input.
Gain_Again ==
    /\ UNCHANGED <<ringSide, sysVars, wrapSide>>
    /\ b_last.op = "gain_done"
    /\ b_last.inputs # <<>>
    /\ b_last' = [op |-> "gain_call", node |-> b_last.node_after,
                  inputs |-> <<>>, output |-> b_last.after]
    /\ UNCHANGED <<graph, b_pc>>

GainNext ==
    \/ Gain_Process
    \/ Gain_Again

GainInit == RingStart({1}) /\ SysStart({1}, {1}) /\ WrapStart /\ GainStart

GainSpec == GainInit /\ [][GainNext]_vars

\* ---- ApplySpec: Engine::apply_command called directly
\* "let compiled = build_default_graph(..)": a new plan on the heap, held by
\* the client.
Ap_Compile ==
    /\ UNCHANGED <<ringSide, wrapSide>>
    /\ ctl_held = 0
    /\ \E id \in PlanIds :
          /\ plan_status[id] = "none"
          /\ \A j \in PlanIds : j < id => plan_status[j] # "none"
          /\ LET c == build_default_graph(1, 2)
             IN  /\ c.ok
                 /\ plans' = [plans EXCEPT ![id] = c.graph]
          /\ plan_status' = [plan_status EXCEPT ![id] = "live"]
          /\ ctl_held' = id
    /\ b_last' = [op |-> "compile"]
    /\ UNCHANGED <<graph, b_pc>>
    /\ UNCHANGED <<cmd_ring, evt_ring, engine, a_pc, output, attempts, sent_log,
                   applied_log, evt_log, evt_recvd, a_must, drain_swaps, rendered_by>>

\* The commands the client can pass: the plain ones, no-op, and a swap to
\* the plan it holds.
ApplyMenu ==
    PlainCommands \cup {NoOp}
                  \cup (IF ctl_held # 0 THEN {SwapGraph(ctl_held)} ELSE {})

\* "engine.apply_command(cmd, &evt_tx)".
Ap_Apply ==
    /\ UNCHANGED <<ringSide, wrapSide>>
    /\ \E cmd \in ApplyMenu :
          \E a \in {apply_command(engine, evt_ring, cmd)} :
              /\ engine' = a.engine
              /\ evt_ring' = a.evt_ring
              /\ evt_log' = evt_log \o a.event
              /\ plan_status' = IF a.dropped # 0
                                THEN [plan_status EXCEPT ![a.dropped] = "dropped_audio"]
                                ELSE plan_status
              /\ plans' = IF a.dropped # 0
                          THEN [plans EXCEPT ![a.dropped] = NoGraph]
                          ELSE plans
              /\ ctl_held' = IF cmd.kind = "SwapGraph" THEN 0 ELSE ctl_held
              /\ b_last' = [op |-> "apply", cmd |-> cmd]
    /\ UNCHANGED <<graph, b_pc>>
    /\ UNCHANGED <<cmd_ring, a_pc, output, attempts, sent_log, applied_log,
                   evt_recvd, a_must, drain_swaps, rendered_by>>

\* "engine.render_block(&mut buf)" before any plan is installed: the fallback
\* generator moves on.
Ap_Render ==
    /\ UNCHANGED <<ringSide, wrapSide>>
    /\ engine.current_graph = 0
    /\ \E len \in 0..MaxBlock :
          \E r \in {render_block(engine, plans, CallerSlice(len))} :
              /\ engine' = r.engine
              /\ plans' = r.heap
              /\ output' = r.output
              /\ rendered_by' = r.by
    /\ b_last' = [op |-> "render_block"]
    /\ UNCHANGED <<graph, b_pc>>
    /\ UNCHANGED <<cmd_ring, evt_ring, plan_status, ctl_held, a_pc, attempts,
                   sent_log, applied_log, evt_log, evt_recvd, a_must,
                   drain_swaps>>

\* "evt_rx.try_recv()": one event taken, the displaced plan dropped with it.
Ap_RecvEvent ==
    /\ UNCHANGED <<ringSide, wrapSide>>
    /\ \E r \in {try_recv(evt_ring)} :
          /\ r.some
          /\ evt_ring' = r.ring
          /\ evt_recvd' = Append(evt_recvd, r.value)
          /\ plan_status' = IF r.value.kind = "GraphSwapped"
                            THEN [plan_status EXCEPT ![r.value.arg] = "dropped_control"]
                            ELSE plan_status
          /\ plans' = IF r.value.kind = "GraphSwapped"
                      THEN [plans EXCEPT ![r.value.arg] = NoGraph]
                      ELSE plans
    /\ b_last' = [op |-> "recv_event"]
    /\ UNCHANGED <<graph, b_pc>>
    /\ UNCHANGED <<cmd_ring, engine, ctl_held, a_pc, output, attempts, sent_log,
                   applied_log, evt_log, a_must, drain_swaps, rendered_by>>

ApplyNext ==
    \/ Ap_Compile
    \/ Ap_Apply
    \/ Ap_Render
    \/ Ap_RecvEvent

ApplyInit == RingStart({1}) /\ SysStart({1}, {1, MaxEvtCap}) /\ BuilderStart /\ WrapStart

ApplySpec == ApplyInit /\ [][ApplyNext]_vars

\* ---- MixSpec: graphs with a mixer
\* Two generators that differ from the second sample on, and a mixer with
\* two different gains.
MixMenu ==
    {SineGenerator_new(1, SampleRate), SineGenerator_new(3, SampleRate),
     Mixer_new(<<1, 2>>)}

\* "g.add_node(GraphNode::Sine(..))", "g.add_node(GraphNode::Mixer(..))".
Mix_AddNode ==
    /\ UNCHANGED <<ringSide, sysVars, wrapSide>>
    /\ b_pc = "ready"
    /\ Len(graph.nodes) < MaxNodes
    /\ \E node \in MixMenu : graph' = add_node(graph, node)
    /\ b_last' = [op |-> "add_node"]
    /\ UNCHANGED b_pc

MixNext ==
    \/ Mix_AddNode
    \/ Bld_AddEdge
    \/ Bld_Compile
    \/ Bld_Process

MixInit == RingStart({1}) /\ SysStart({1}, {1}) /\ BuilderStart /\ WrapStart

MixSpec == MixInit /\ [][MixNext]_vars

\* ------------------------------------------------- the ring over a long run
\* One RingBuffer used for as many calls as it takes for its indices to wrap,
\* each try_send and try_recv taken as one step.

\* "tx.try_send(value)".
Wrap_Send ==
    /\ UNCHANGED <<sysVars, builderSide>>
    /\ \E v \in RingValues :
          LET r == try_send(ring, v)
          IN  /\ ring' = r.ring
              /\ w_unread' =
                    IF r.ok
                    THEN Append(w_unread,
                                [value |-> v,
                                 slot  |-> SlotIndex(ring.write_index, ring.cap)])
                    ELSE w_unread
    /\ UNCHANGED <<prodVars, consVars, histVars>>

\* "rx.try_recv()".
Wrap_Recv ==
    /\ UNCHANGED <<sysVars, builderSide>>
    /\ LET r == try_recv(ring)
       IN  /\ r.some
           /\ ring' = r.ring
           /\ w_unread' = Tail(w_unread)
    /\ UNCHANGED <<prodVars, consVars, histVars>>

WrapNext ==
    \/ Wrap_Send
    \/ Wrap_Recv

WrapInit == RingStart(1..MaxCap) /\ SysStart({1}, {1}) /\ BuilderStart /\ WrapStart

WrapSpec == WrapInit /\ [][WrapNext]_vars

\* ------------------------------------------------------- ring buffer claims
IsPrefix(a, b) == Len(a) <= Len(b) /\ SubSeq(b, 1, Len(a)) = a

Min(a, b) == IF a <= b THEN a ELSE b

\* Item numbers (1-based, in send order) published and not yet consumed.
Unread == (Len(recvd) + 1)..Len(sent)

\* The slot the n-th successfully sent item was written to.
SlotOfItem(n) == SlotIndex((n - 1) % UsizeModulus, ring.cap)

ProducerAtSlotWrite == p_pc = "check" /\ ~FullAt(p_write, p_read, ring.cap)

ConsumerAtSlotRead == c_pc = "check" /\ ~EmptyAt(c_read, c_write)

\* C1: FIFO delivery. Under every interleaving of the producer's and the
\* consumer's steps, the values try_recv has returned are a prefix of the
\* values whose try_send returned Ok, in the same order.
C1_Fifo == IsPrefix(recvd, sent)

\* Three values received through a ring of capacity 2 (so a slot was reused),
\* not all equal, while the producer is in the middle of a further try_send.
C1_Witness ==
    /\ ring.cap = 2
    /\ Len(recvd) = 3
    /\ recvd[1] # recvd[2]
    /\ p_pc = "store"

\* C2: slot safety. Whenever a thread is about to access a slot, the slot
\* index is in [0, cap); the consumer's slot holds the oldest value that a
\* completed try_send published and that was not consumed; the producer's
\* slot is the slot of no unread item. The value the consumer took out of
\* the slot is that oldest unread value.
C2_SlotSafety ==
    /\ ConsumerAtSlotRead =>
          LET i == SlotIndex(c_read, ring.cap)
          IN  /\ i \in 0..(ring.cap - 1)
              /\ c_read = ring.read_index
              /\ Len(recvd) < Len(sent)
              /\ i = SlotOfItem(Len(recvd) + 1)
              /\ ring.storage[i] = sent[Len(recvd) + 1]
    /\ c_pc = "store" =>
          /\ Len(recvd) < Len(sent)
          /\ c_value = sent[Len(recvd) + 1]
    /\ ProducerAtSlotWrite =>
          LET i == SlotIndex(p_write, ring.cap)
          IN  /\ i \in 0..(ring.cap - 1)
              /\ p_write = ring.write_index
              /\ \A n \in Unread : SlotOfItem(n) # i

\* Both threads are about to access a slot of a ring of capacity 2 whose
\* slots have been used before.
C2_Witness ==
    /\ ring.cap = 2
    /\ Len(sent) = 3
    /\ ConsumerAtSlotRead
    /\ ProducerAtSlotWrite

\* C3: capacity. As long as no try_recv has begun, of the try_send calls
\* completed so far exactly the first cap returned Ok; and a try_send that
\* begins after a try_recv on a full ring has returned Some returns Ok.
C3_Capacity ==
    /\ ~recv_began => Len(sent) = Min(send_done, ring.cap)
    /\ (p_pc = "idle" /\ p_ret.after_room) => p_ret.ok

\* cap + 2 sends completed, one of them rejected, the last one accepted
\* right after a try_recv on the full ring.
C3_Witness ==
    /\ p_pc = "idle"
    /\ p_ret.after_room
    /\ p_ret.ok
    /\ send_done = ring.cap + 2
    /\ Len(sent) = ring.cap + 1

\* The step in which try_send returns Err.
SendRejected == p_pc = "check" /\ p_pc' = "idle"

\* C4: a rejected try_send. The step that returns Err hands back exactly
\* the value passed in, happens only when the ring held cap unread items
\* when read_index was loaded, and leaves write_index, read_index and every
\* slot as they are and as they were when the call began; the sequence of
\* queued items is unaffected.
C4_RejectedSend ==
    [][SendRejected =>
          /\ ~p_ret'.ok
          /\ p_ret'.value = p_value
          /\ wrapping_sub(ring.write_index, p_read) = ring.cap
          /\ ring' = ring
          /\ ring.write_index = p_snap.write_index
          /\ ring.storage = p_snap.storage
          /\ sent' = sent]_vars

\* A try_send has just been rejected on a ring holding cap unread items.
C4_Witness ==
    /\ p_pc = "idle"
    /\ send_done > 0
    /\ ~p_ret.ok
    /\ p_ret.value \in RingValues
    /\ Len(sent) - Len(recvd) = ring.cap

\* ----------------------------------------------------------- system claims
\* The values in the published, unconsumed slots of a ring, oldest first.
Queued(r) ==
    [k \in 1..wrapping_sub(r.write_index, r.read_index) |->
        r.storage[SlotIndex((r.read_index + k - 1) % UsizeModulus, r.cap)]]

CountIn(seq, v) == Cardinality({k \in 1..Len(seq) : seq[k] = v})

Dropped(id) == plan_status[id] \in {"dropped_control", "dropped_audio"}

\* The number of places that own plan id.
Places(id) ==
      (IF ctl_held = id THEN 1 ELSE 0)
    + CountIn(Queued(cmd_ring), SwapGraph(id))
    + (IF engine.current_graph = id THEN 1 ELSE 0)
    + CountIn(Queued(evt_ring), GraphSwapped(id))
    + (IF Dropped(id) THEN 1 ELSE 0)

\* C5: plan ownership is exclusive. Every plan that was created is in exactly
\* one place: held by the control thread, in a command-channel slot, installed
\* in the engine, in an event-channel slot, or dropped; it has its heap
\* contents exactly as long as it is not dropped; a plan not yet created is
\* nowhere.
C5_ExclusiveOwnership ==
    \A id \in PlanIds :
       /\ plan_status[id] # "none" => Places(id) = 1
       /\ plan_status[id] = "none" => Places(id) = 0
       /\ plan_status[id] = "live" <=> plans[id] # NoGraph

\* Three plans in three different places: one displaced and waiting in the
\* event channel, one installed, one waiting in the command channel.
C5_Witness ==
    \E a, b, c \in PlanIds :
       /\ CountIn(Queued(evt_ring), GraphSwapped(a)) = 1
       /\ engine.current_graph = b
       /\ CountIn(Queued(cmd_ring), SwapGraph(c)) = 1

\* C6 (as claimed): no plan is ever dropped on the audio thread.
C6_NeverDroppedOnAudio ==
    \A id \in PlanIds : plan_status[id] # "dropped_audio"

IsSwap(cmd) == cmd.kind = "SwapGraph"

\* The plans installed so far, in the order of their swaps.
Installed == LET sw == SelectSeq(applied_log, IsSwap)
             IN  [k \in 1..Len(sw) |-> sw[k].arg]

\* The last scratch buffer of a compiled graph.
LastScratch(cg) == cg.scratch_buffers[Len(cg.scratch_buffers)]

\* The plan of the last swap applied in the drain of the current call.
DrainPlan == drain_swaps[Len(drain_swaps)]

\* The step in which a call whose drain applied a swap renders its block.
RendersAfterSwap ==
    /\ a_pc = "render" /\ a_pc' = "idle"
    /\ drain_swaps # <<>>
    /\ ~engine.should_quit

\* C7: a swap installs the new plan. When a drain in which swaps were applied
\* has ended, the active plan is the plan of the last of them; and the block of
\* that call, unless the engine is quitting, is rendered by that plan: the
\* output and the plan are what the plan's process makes of them, and neither
\* the fallback chain nor any other plan is touched.
C7_SwapInstalls ==
    /\ []((a_pc \in {"render", "idle"} /\ drain_swaps # <<>>) =>
             /\ engine.current_graph = DrainPlan
             /\ DrainPlan = Installed[Len(Installed)]
             /\ plan_status[DrainPlan] = "live")
    /\ [][RendersAfterSwap =>
             LET r == CompiledGraph_process(plans[DrainPlan], output)
             IN  /\ output' = r.output
                 /\ plans' = [plans EXCEPT ![DrainPlan] = r.graph]
                 /\ plans'[DrainPlan] # plans[DrainPlan]
                 /\ engine' = engine
                 /\ rendered_by' = [kind |-> "plan", id |-> DrainPlan]]_vars

\* A call whose drain applied two swaps has rendered with the second plan.
C7_Witness ==
    /\ a_pc = "idle"
    /\ drain_swaps = <<1, 2>>
    /\ rendered_by = [kind |-> "plan", id |-> 2]
    /\ output # [i \in 1..FrameCount |-> CallerFill]

NotDroppedOnAudio(id) == plan_status[id] # "dropped_audio"

\* The plans displaced so far, in the order in which they were installed.
Displaced == IF Installed = <<>> THEN <<>> ELSE SubSeq(Installed, 1, Len(Installed) - 1)

\* C8: displacement events. The events the engine has sent are, in order, one
\* graph-swapped event for each displaced plan that found room in the event
\* channel: none for the first swap, and for the k-th swap the plan installed
\* by the (k-1)-th. The control thread receives them in that order.
C8_DisplacementEvents ==
    /\ LET kept == SelectSeq(Displaced, NotDroppedOnAudio)
       IN  evt_log = [k \in 1..Len(kept) |-> GraphSwapped(kept[k])]
    /\ IsPrefix(evt_recvd, evt_log)
    /\ (\A id \in PlanIds : NotDroppedOnAudio(id)) => Len(evt_log) = Len(Displaced)

\* Two swaps applied within one drain displaced plans 1 and 2, and the control
\* thread has received both events in that order.
C8_Witness ==
    /\ Len(drain_swaps) = 2
    /\ Installed = <<1, 2, 3>>
    /\ evt_recvd = <<GraphSwapped(1), GraphSwapped(2)>>

\* The position of the last command of one of the given kinds (0: none).
LastIdx(log, kinds) ==
    LET S == {k \in 1..Len(log) : log[k].kind \in kinds}
    IN  IF S = {} THEN 0 ELSE CHOOSE k \in S : \A j \in S : j <= k

GainAfter(log) ==
    LET k == LastIdx(log, {"SetGain"}) IN IF k = 0 THEN InitialGain ELSE log[k].arg

QuitAfter(log) ==
    LET k == LastIdx(log, {"Quit", "Resume"}) IN k # 0 /\ log[k].kind = "Quit"

PlanAfter(log) ==
    LET k == LastIdx(log, {"SwapGraph"}) IN IF k = 0 THEN 0 ELSE log[k].arg

\* C9: drain before render. The commands applied are always a prefix of the
\* commands sent Ok, in send order; until the drain of a call has ended the
\* output slice is as the caller passed it; when it has ended every command
\* sent before the call began has been applied; and if none was sent since,
\* the command channel is empty and gain, quit flag and active plan are those
\* of the last command of each kind.
C9_DrainBeforeRender ==
    /\ IsPrefix(applied_log, sent_log)
    /\ a_pc \in {"drain", "render"} => output = [i \in 1..FrameCount |-> CallerFill]
    /\ a_pc = "render" => Len(applied_log) >= a_must
    /\ (a_pc = "render" /\ Len(sent_log) = a_must) =>
          /\ Queued(cmd_ring) = <<>>
          /\ applied_log = sent_log
          /\ engine.gain_processor.gain = GainAfter(sent_log)
          /\ engine.should_quit = QuitAfter(sent_log)
          /\ engine.current_graph = PlanAfter(sent_log)

\* Two set-gain commands sent before the call began have both been applied
\* by the end of its drain, the second one deciding the gain.
C9_Witness ==
    /\ a_pc = "render"
    /\ a_must = 2
    /\ Len(applied_log) = 2
    /\ sent_log = <<SetGain(3), SetGain(2)>>
    /\ engine.gain_processor.gain = 2

\* What render_block leaves in the output: the active plan's last scratch
\* buffer, or the fallback gain times the fallback scratch.
Rendered ==
    IF engine.current_graph # 0
    THEN LastScratch(plans[engine.current_graph])
    ELSE [i \in 1..FrameCount |->
             engine.fallback_scratch[i] * engine.gain_processor.gain]

\* C10: quit / resume. The quit flag is set iff the last quit or resume
\* applied was quit. A completed call has zero-filled the output iff the flag
\* was set after its drain, plan or no plan; otherwise it has rendered a
\* block, with the active plan if there is one and else the fallback chain.
C10_QuitResume ==
    /\ engine.should_quit = QuitAfter(applied_log)
    /\ (a_pc = "idle" /\ rendered_by # NoRender) =>
          /\ rendered_by.kind = "silence" <=> engine.should_quit
          /\ engine.should_quit => output = [i \in 1..FrameCount |-> 0]
          /\ ~engine.should_quit =>
                /\ rendered_by = IF engine.current_graph # 0
                                 THEN [kind |-> "plan", id |-> engine.current_graph]
                                 ELSE [kind |-> "fallback", id |-> 0]
                /\ output = Rendered

\* After quit and then resume a block is rendered again by the installed plan.
C10_Witness ==
    /\ a_pc = "idle"
    /\ applied_log = <<SwapGraph(1), Quit, Resume>>
    /\ rendered_by = [kind |-> "plan", id |-> 1]
    /\ Len(drain_swaps) = 0

\* The command the next iteration of the drain loop receives.
NextCommand == try_recv(cmd_ring).value

\* The step of the drain loop that applies a command of the given kind.
Applies(kind) ==
    /\ a_pc = "drain"
    /\ try_recv(cmd_ring).some
    /\ NextCommand.kind = kind
    /\ applied_log' = Append(applied_log, NextCommand)

\* C11: a swap applied while the event channel is full. The new plan becomes
\* the active plan, the displaced plan is dropped there and then, no event is
\* added and the queued events stay as they are, and the drain loop goes on
\* (no error, no waiting).
C11_SwapOnFullEvents ==
    [][(Applies("SwapGraph") /\ engine.current_graph # 0 /\ is_full(evt_ring)) =>
          /\ engine' = [engine EXCEPT !.current_graph = NextCommand.arg]
          /\ plan_status'[NextCommand.arg] = "live"
          /\ plan_status'[engine.current_graph] = "dropped_audio"
          /\ evt_ring' = evt_ring
          /\ evt_log' = evt_log
          /\ a_pc' = "drain"]_vars

\* The third swap found the event of the second still queued: plan 3 is
\* active, plan 2 was dropped and the queue holds the event it held before.
C11_Witness ==
    /\ Installed = <<1, 2, 3>>
    /\ engine.current_graph = 3
    /\ plan_status[2] = "dropped_audio"
    /\ Queued(evt_ring) = <<GraphSwapped(1)>>
    /\ evt_log = <<GraphSwapped(1)>>

C19_NoHeapTrafficOnAudio ==
    /\ (a_pc = "render" /\ ~engine.should_quit) =>
          render_block(engine, plans, output).allocs = 0
    /\ \A id \in PlanIds : plan_status[id] \notin {"dropped_audio"}

\* The number of its own steps a call has taken when it is at pc.
StepsTaken(pc) ==
    CASE pc = "idle" -> 0
      [] pc = "load_write" -> 1
      [] pc = "check" -> 2
      [] pc = "store" -> 3

\* C20: try_send and try_recv do not block. Wherever the other thread stands,
\* a call that has begun can take its next step, and try_recv can always
\* begin; every step of a call is either its next step or its return, so a
\* call returns within four steps of its own; and it returns Ok or Err(value),
\* Some(value) or None.
C20_NonBlocking ==
    /\ []( /\ p_pc = "load_write" => ENABLED P_LoadWrite
           /\ p_pc = "check" => ENABLED (P_Full \/ P_WriteSlot)
           /\ p_pc = "store" => ENABLED P_Store
           /\ c_pc = "idle" => ENABLED C_LoadRead
           /\ c_pc = "load_write" => ENABLED C_LoadWrite
           /\ c_pc = "check" => ENABLED (C_Empty \/ C_ReadSlot)
           /\ c_pc = "store" => ENABLED C_Store )
    /\ [][ /\ prodVars' # prodVars =>
                \/ StepsTaken(p_pc') = StepsTaken(p_pc) + 1
                \/ /\ p_pc # "idle" /\ p_pc' = "idle"
                   /\ send_done' = send_done + 1
                   /\ p_ret'.ok \/ p_ret'.value = p_value
           /\ consVars' # consVars =>
                \/ StepsTaken(c_pc') = StepsTaken(c_pc) + 1
                \/ /\ c_pc # "idle" /\ c_pc' = "idle"
                   /\ c_ret'.some \/ c_ret'.value = Uninit ]_vars

\* The last try_send has returned Err(value) on a ring that is still full,
\* and the consumer stands in the middle of a try_recv, before its index store.
C20_Witness ==
    /\ send_done > 0 /\ ~p_ret.ok /\ p_ret.value # Uninit
    /\ is_full(ring)
    /\ c_pc = "store"
    /\ p_pc = "idle"

\* ----------------------------------------------------------- graph claims
\* The identifiers of the nodes of a builder graph.
NodeIds(g) == 0..(Len(g.nodes) - 1)

\* The builder stores an edge from node u to v.
Edge(g, u, v) == Contains(g.adjacency[u + 1], v)

RECURSIVE PathWithin(_, _, _, _)
\* There is a path of 1..k edges from node u to node v.
PathWithin(g, u, v, k) ==
    \/ Edge(g, u, v)
    \/ /\ k > 1
       /\ \E w \in NodeIds(g) : Edge(g, u, w) /\ PathWithin(g, w, v, k - 1)

HasCycle(g) == \E u \in NodeIds(g) : PathWithin(g, u, u, Len(g.nodes))

\* The position (from 1) of node id in an order that contains it.
Pos(order, id) == CHOOSE k \in 1..Len(order) : order[k] = id

\* C13: topological validity. On a graph with a cycle (a self-loop included)
\* topological_sort returns Err; on an acyclic graph it returns Ok with a
\* permutation of the node identifiers 0..n-1 in which u comes before v for
\* every edge from u to a node v.
C13_TopologicalValidity ==
    b_last.op = "sort" =>
       LET n     == Len(graph.nodes)
           order == b_last.order
       IN  IF HasCycle(graph)
           THEN ~b_last.ok
           ELSE /\ b_last.ok
                /\ Len(order) = n
                /\ {order[k] : k \in 1..Len(order)} = NodeIds(graph)
                /\ \A u, v \in NodeIds(graph) :
                      Edge(graph, u, v) => Pos(order, u) < Pos(order, v)

\* Three nodes and three edges, acyclic, sorted into an order that is not
\* the order in which the nodes were added.
C13_Witness ==
    /\ b_last.op = "sort" /\ b_last.ok
    /\ Len(graph.nodes) = 3
    /\ EdgeCountFrom(graph, 1) = 3
    /\ b_last.order = <<2, 1, 0>>

\* C14: compiled-plan input lists. A plan compiled from n nodes has n nodes,
\* n scratch buffers of frame_count samples and n input lists; the input list
\* of position i holds, once each, exactly the positions j whose node order[j]
\* has an edge to node order[i], and each of them is below i.
C14_CompiledInputLists ==
    (b_last.op = "compile" /\ b_last.ok) =>
       LET plan  == b_last.plan
           order == topological_sort(graph).order
           n     == Len(graph.nodes)
       IN  /\ Len(plan.nodes) = n
           /\ Len(plan.scratch_buffers) = n
           /\ Len(plan.input_buf_indices) = n
           /\ \A i \in 1..n :
                 LET list == plan.input_buf_indices[i]
                     from == {j \in 0..(n - 1) : Edge(graph, order[j + 1], order[i])}
                 IN  /\ Len(plan.scratch_buffers[i]) = b_last.frame_count
                     /\ plan.nodes[i] = graph.nodes[order[i] + 1]
                     /\ {list[k] : k \in 1..Len(list)} = from
                     /\ Len(list) = Cardinality(from)
                     /\ \A k \in 1..Len(list) : list[k] < i - 1

\* A plan whose last node has two inputs, compiled with two frames from a
\* graph whose nodes were not added in topological order.
C14_Witness ==
    /\ b_last.op = "compile" /\ b_last.ok
    /\ b_last.frame_count = 2
    /\ Len(b_last.plan.nodes) = 3
    /\ b_last.plan.input_buf_indices[3] = <<0, 1>>
    /\ topological_sort(graph).order = <<1, 2, 0>>

\* The client's compile call on a graph with a cycle.
CompilesCyclic ==
    /\ b_pc = "ready"
    /\ HasCycle(graph)
    /\ b_last'.op = "compile"
    /\ b_last' # b_last

\* C15: compile on a graph with a cycle returns Err and no plan; the call
\* leaves the builder's nodes and edges as they were, and the engine, the
\* plans and both channels as well: the active plan, or the fallback chain,
\* is the same before and after.
C15_CyclicCompileFails ==
    /\ []((b_last.op = "compile" /\ HasCycle(graph)) =>
             ~b_last.ok /\ b_last.plan = NoGraph)
    /\ [][CompilesCyclic =>
             /\ ~b_last'.ok /\ b_last'.plan = NoGraph
             /\ graph' = graph
             /\ engine' = engine /\ plans' = plans /\ plan_status' = plan_status
             /\ cmd_ring' = cmd_ring /\ evt_ring' = evt_ring]_vars

\* A compile has failed on a graph with a cycle while the engine has a plan
\* installed that has already rendered a block.
C15_Witness ==
    /\ b_last.op = "compile" /\ ~b_last.ok
    /\ HasCycle(graph)
    /\ engine.current_graph = 1
    /\ rendered_by = [kind |-> "plan", id |-> 1]
    /\ plans[1] # NoGraph

\* C16 (as claimed): after any calls of add_node and add_edge that returned,
\* every edge stored in the builder ends at an existing node.
C16_EdgeEndpointsExist ==
    b_pc = "ready" =>
       \A a \in 1..Len(graph.adjacency) :
          \A k \in 1..Len(graph.adjacency[a]) :
             graph.adjacency[a][k] \in NodeIds(graph)

\* C17 (as claimed): process on an output slice of any length returns, and
\* the first min(frame_count, length) samples of the output are those of the
\* last node's scratch buffer.
C17_ProcessAnyLength ==
    b_last.op = "process" =>
       /\ ~b_last.panicked
       /\ Len(b_last.plan.nodes) > 0 =>
             \A i \in 1..Min(b_last.frame_count, Len(b_last.output)) :
                b_last.output[i] = LastScratch(b_last.plan)[i]

\* C18 (as claimed): when the engine has rendered its plan into a slice
\* longer than the plan's frame count, the first frame_count samples are the
\* plan's and every sample beyond is zero.
C18_TailZeroFilled ==
    (b_last.op = "render" /\ ~b_last.panicked /\ Len(output) > FrameCount) =>
       /\ \A i \in 1..FrameCount :
             output[i] = LastScratch(plans[engine.current_graph])[i]
       /\ \A i \in (FrameCount + 1)..Len(output) : output[i] = 0

\* The slots that hold an unread item.
UnreadSlots == {w_unread[k].slot : k \in 1..Len(w_unread)}

\* C29 (as claimed): index wraparound. However often the indices have
\* wrapped, and whatever the capacity, the ring reports full exactly when
\* capacity items are unread, and the slot the next try_send writes holds no
\* unread item.
C29_WrapSafe ==
    /\ is_full(ring) <=> Len(w_unread) = ring.cap
    /\ ~is_full(ring) => SlotIndex(ring.write_index, ring.cap) \notin UnreadSlots

\* A step of the producer, of the consumer.
ProducerStep == prodVars' # prodVars
ConsumerStep == consVars' # consVars

\* C25: each index has a single writer. No step of try_send changes
\* read_index and no step of try_recv changes write_index; either index moves
\* only at the last step of a successful call of its writer, and then by one;
\* so a try_send that returns Ok leaves write_index one above its value at the
\* start of the call, a try_recv that returns Some does so for read_index, and
\* a call that returns Err or None leaves both as they were at its start.
C25_SingleWriter ==
    [][ /\ ProducerStep => ring'.read_index = ring.read_index
        /\ ConsumerStep => ring'.write_index = ring.write_index
        /\ ring'.write_index # ring.write_index =>
              /\ p_pc = "store" /\ p_pc' = "idle" /\ p_ret'.ok
              /\ ring'.write_index = wrapping_add(ring.write_index)
        /\ ring'.read_index # ring.read_index =>
              /\ c_pc = "store" /\ c_pc' = "idle" /\ c_ret'.some
              /\ ring'.read_index = wrapping_add(ring.read_index)
        /\ (ProducerStep /\ p_pc' = "idle") =>
              ring'.write_index = IF p_ret'.ok
                                  THEN wrapping_add(p_snap.write_index)
                                  ELSE p_snap.write_index
        /\ (ConsumerStep /\ c_pc' = "idle") =>
              ring'.read_index = IF c_ret'.some
                                 THEN wrapping_add(c_read)
                                 ELSE c_read ]_vars

\* Three try_send calls have returned, the last of them Err, and a try_recv
\* has returned Some: write_index is 2 and read_index is 1.
C25_Witness ==
    /\ p_pc = "idle" /\ c_pc = "idle"
    /\ send_done = 3 /\ ~p_ret.ok /\ p_ret.value # Uninit
    /\ Len(sent) = 2 /\ Len(recvd) = 1
    /\ ring.write_index = 2 /\ ring.read_index = 1

\* C26: try_recv. The read index a call has loaded is the read index; the
\* call returns None exactly when that equals the write index it has loaded,
\* and then leaves the ring as it is; otherwise it reads the slot at
\* read_index mod capacity while read_index is still unchanged, and only then
\* stores read_index + 1 and returns the value it has read, leaving the slots
\* and write_index as they are.
C26_TryRecv ==
    /\ [](c_pc # "idle" => c_read = ring.read_index)
    /\ [][ /\ (ConsumerStep /\ c_pc = "load_write") => c_write' = ring.write_index
           /\ (ConsumerStep /\ c_pc = "check") =>
                 IF c_read = c_write
                 THEN /\ c_pc' = "idle"
                      /\ c_ret' = [some |-> FALSE, value |-> Uninit]
                      /\ ring' = ring
                 ELSE /\ c_pc' = "store"
                      /\ c_value' = ring.storage[SlotIndex(ring.read_index, ring.cap)]
                      /\ ring' = ring
           /\ (ConsumerStep /\ c_pc = "store") =>
                 /\ c_pc' = "idle"
                 /\ c_ret' = [some |-> TRUE, value |-> c_value]
                 /\ ring' = [ring EXCEPT !.read_index = wrapping_add(ring.read_index)] ]_vars

\* Two values were received and the try_recv after them has returned None.
C26_Witness ==
    /\ c_pc = "idle"
    /\ Len(recvd) = 2
    /\ c_ret = [some |-> FALSE, value |-> Uninit]
    /\ is_empty(ring)

\* The number of unread items according to a pair of index values.
Occupancy(write, read) == wrapping_sub(write, read)

\* C30: occupancy. write_index - read_index is the number of unread items and
\* lies in 0..capacity; the count the producer derives from its loads lies in
\* 0..capacity and is at least the true count (its read index may be stale),
\* the count the consumer derives lies in 0..capacity and is at most the true
\* count (its write index may be stale).
C30_Occupancy ==
    LET true_count == Occupancy(ring.write_index, ring.read_index)
    IN  /\ true_count \in 0..ring.cap
        /\ true_count = Len(sent) - Len(recvd)
        /\ p_pc \in {"check", "store"} =>
              /\ Occupancy(p_write, p_read) \in 0..ring.cap
              /\ Occupancy(p_write, p_read) >= true_count
        /\ c_pc \in {"check", "store"} =>
              /\ Occupancy(c_write, c_read) \in 0..ring.cap
              /\ Occupancy(c_write, c_read) <= true_count

\* The producer works from a stale load: at its full test it counts two
\* unread items in a ring of capacity 2 while only one is still unread.
C30_Witness ==
    /\ ring.cap = 2
    /\ p_pc = "check" /\ Occupancy(p_write, p_read) = 2
    /\ Occupancy(ring.write_index, ring.read_index) = 1

\* C22: a quit sent after the drain of a call has ended. The block of a call
\* depends on the commands applied so far only: it is zero-filled iff the last
\* quit or resume applied is a quit, whatever waits in the command channel,
\* and otherwise it is what render_block makes of the engine as the drain
\* left it; the rendering leaves the waiting commands in the channel. A call
\* that began after the quit was sent, and has drained no more than what was
\* sent before it began, has the quit flag set when it renders.
C22_LateQuit ==
    /\ [][ (a_pc = "render" /\ a_pc' # "render") =>
             /\ cmd_ring' = cmd_ring
             /\ rendered_by'.kind = "silence" <=> QuitAfter(applied_log)
             /\ QuitAfter(applied_log) => output' = [i \in 1..FrameCount |-> 0]
             /\ ~QuitAfter(applied_log) =>
                   /\ output' = render_block(engine, plans, output).output
                   /\ rendered_by' = render_block(engine, plans, output).by ]_vars
    /\ [] ( ( /\ a_pc = "render"
              /\ Len(applied_log) = a_must
              /\ QuitAfter(SubSeq(sent_log, 1, a_must)) ) => engine.should_quit )

\* The drain of a call has ended with the quit flag clear, and a quit sent
\* since then waits in the command channel while the call is about to render.
C22_Witness ==
    /\ a_pc = "render"
    /\ ~engine.should_quit
    /\ Queued(cmd_ring) = <<Quit>>
    /\ sent_log = <<SetGain(2), Quit>>
    /\ applied_log = <<SetGain(2)>>

\* C21 (as claimed): every call of process_audio ends its drain and goes on
\* to render, also while the control thread keeps sending.
C21_DrainTerminates == (a_pc = "drain") ~> (a_pc = "render")

\* Plan id is on the heap and has no nodes.
EmptyPlan(id) == plan_status[id] = "live" /\ Len(plans[id].nodes) = 0

\* C23: a plan without nodes is a no-op. process on such a plan, and
\* process_audio while such a plan is active and the quit flag is clear
\* after the drain, return without a panic and leave the slice, whatever its
\* length, sample for sample as the caller passed it, and the plan as it was.
C23_EmptyPlanNoOp ==
    [][ /\ (b_last'.op = "process" /\ EmptyPlan(ctl_held)) =>
              /\ output' = CallerSlice(Len(output'))
              /\ plans' = plans
              /\ b_pc' = "ready"
        /\ ( /\ b_last'.op = "process_audio"
             /\ engine.current_graph # 0
             /\ EmptyPlan(engine.current_graph)
             /\ ~engine'.should_quit ) =>
              /\ output' = CallerSlice(Len(output'))
              /\ plans' = plans
              /\ rendered_by' = [kind |-> "plan", id |-> engine.current_graph]
              /\ b_pc' = "ready" ]_vars

\* process_audio has run on a slice of three samples with the compiled empty
\* builder as the active plan, after a quit and a resume were drained.
C23_Witness ==
    /\ b_last.op = "process_audio"
    /\ engine.current_graph = 1
    /\ plans[1] = compile(AudioGraph_new, FrameCount).graph
    /\ EmptyPlan(1)
    /\ ~engine.should_quit
    /\ rendered_by = [kind |-> "plan", id |-> 1]
    /\ output = CallerSlice(3)
    /\ attempts = 2 /\ is_empty(cmd_ring)

GenSample(gen, ph, k) ==
    Sin2Pi((ph + k * ((gen.frequency_hz * PhaseSteps) \div gen.sample_rate)) % PhaseSteps)

\* C27: fallback rendering. With no plan installed render_block on a slice of
\* length L writes gain times the generator's next samples into the first
\* min(L, scratch length) positions and zero into every position after them,
\* advances the generator by min(L, scratch length) samples, and changes
\* nothing else of the engine but the scratch.
C27_FallbackRender ==
    [][ (b_last'.op = "render_block" /\ engine.current_graph = 0) =>
          LET L   == b_last'.len
              n   == Min(L, FALLBACK_SCRATCH_FRAMES)
              gen == engine.sine_generator
              g   == engine.gain_processor.gain
          IN  /\ Len(output') = L
              /\ \A i \in 1..L :
                    output'[i] = IF i <= n THEN g * GenSample(gen, gen.phase, i - 1)
                                 ELSE 0
              /\ engine'.sine_generator =
                    [gen EXCEPT !.phase =
                        (gen.phase + n * ((gen.frequency_hz * PhaseSteps)
                                            \div gen.sample_rate)) % PhaseSteps]
              /\ engine'.gain_processor = engine.gain_processor
              /\ engine'.should_quit = engine.should_quit
              /\ engine'.current_graph = 0
              /\ rendered_by' = [kind |-> "fallback", id |-> 0] ]_vars

\* With gain 2 and the generator three samples on, a slice of six samples
\* was rendered: four samples of the chain, then two zeros; the generator is
\* four samples further.
C27_Witness ==
    /\ b_last = [op |-> "render_block", len |-> 6]
    /\ engine.current_graph = 0
    /\ engine.gain_processor.gain = 2
    /\ output = <<-2, 0, 2, 0, 0, 0>>
    /\ engine.sine_generator.phase = 3

\* C28: gain processing. After a call the slice has the length it had and the
\* node is as it was. With at least one input, sample i is input0[i] * gain
\* for i up to min(output length, input0 length) and zero beyond, whatever
\* the slice held and whatever the other inputs are; with no input, sample i
\* is what the slice held at i times gain.
C28_GainProcess ==
    b_last.op = "gain_done" =>
       LET g == b_last.node.gain
       IN  /\ Len(b_last.after) = Len(b_last.before)
           /\ b_last.node_after = b_last.node
           /\ \A i \in 1..Len(b_last.after) :
                 b_last.after[i] =
                    IF b_last.inputs = <<>>
                    THEN b_last.before[i] * g
                    ELSE IF i <= Min(Len(b_last.before), Len(b_last.inputs[1]))
                         THEN b_last.inputs[1][i] * g
                         ELSE 0

\* A node of gain 3 was given an input of two samples, a second input, and a
\* slice of three samples: two products and a zero.
C28_Witness ==
    /\ b_last.op = "gain_done"
    /\ b_last.node = GainProcessor_new(3)
    /\ b_last.inputs = << <<1, 2>>, <<2>> >>
    /\ b_last.before = <<2, 2, 2>>
    /\ b_last.after = <<3, 6, 0>>

\* C31: no way back to the fallback chain. The engine has an active plan iff
\* a swap was applied, and it is the plan of the last swap applied, still on
\* the heap; no step makes an active plan absent; and every block rendered
\* with the quit flag clear after a swap was applied is rendered by that plan.
C31_NoReturnToFallback ==
    /\ [] ( /\ engine.current_graph = PlanAfter(applied_log)
            /\ engine.current_graph # 0 => plan_status[engine.current_graph] = "live" )
    /\ [][ /\ engine.current_graph # 0 => engine'.current_graph # 0
           /\ ( /\ a_pc = "render" /\ a_pc' # "render"
                /\ PlanAfter(applied_log) # 0
                /\ ~engine.should_quit ) =>
                 rendered_by' = [kind |-> "plan", id |-> PlanAfter(applied_log)] ]_vars

\* After a first swap a set-gain and a second swap were applied, and the
\* block of the call was rendered by the second plan.
C31_Witness ==
    /\ a_pc = "idle"
    /\ applied_log = <<SwapGraph(1), SetGain(2), SwapGraph(2)>>
    /\ rendered_by = [kind |-> "plan", id |-> 2]
    /\ ~engine.should_quit

\* The number of swaps among the commands applied.
SwapsApplied == Cardinality({k \in 1..Len(applied_log) : applied_log[k].kind = "SwapGraph"})

\* The number of plans displaced so far: one per swap after the first.
Displacements == IF SwapsApplied = 0 THEN 0 ELSE SwapsApplied - 1

\* C32: the engine's events. Every event sent, and every event in the event
\* channel, is a graph-swapped event; the number of events sent is at most
\* the number of swaps applied minus one (zero with no swap), the shortfall
\* being the plans dropped on a full channel; and an event is sent only by
\* the step that applies a swap while a plan is active, and carries that plan.
C32_OnlySwapEvents ==
    /\ [] ( /\ \A k \in 1..Len(evt_log) : evt_log[k].kind = "GraphSwapped"
            /\ \A k \in 1..Len(Queued(evt_ring)) :
                  Queued(evt_ring)[k].kind = "GraphSwapped"
            /\ Len(evt_log) <= Displacements
            /\ Len(evt_log) + Cardinality({id \in PlanIds :
                                    plan_status[id] = "dropped_audio"}) = Displacements )
    /\ [][ evt_log' # evt_log =>
             /\ a_pc = "drain"
             /\ NextCommand.kind = "SwapGraph"
             /\ engine.current_graph # 0
             /\ evt_log' = Append(evt_log, GraphSwapped(engine.current_graph)) ]_vars

\* Three swaps were applied; the first displacement was announced, the
\* second found the event channel full: one event for two displacements.
C32_Witness ==
    /\ applied_log = <<SwapGraph(1), SwapGraph(2), SwapGraph(3)>>
    /\ evt_log = <<GraphSwapped(1)>>
    /\ plan_status[2] = "dropped_audio"
    /\ a_pc = "render"

\* C33: a call while quitting. Every iteration of the drain, quit flag set
\* or not, applies the command it receives as apply_command says, swaps and
\* their events included, and the drain ends only on an empty channel; no
\* drain step touches the fallback generator, the fallback scratch or the
\* content of a plan that stays on the heap; and with the quit flag set
\* after the drain the call zero-fills the slice and leaves the engine, every
\* plan and the event channel exactly as the drain left them.
C33_QuitRunsNoNode ==
    [][ /\ (a_pc = "drain" /\ applied_log' # applied_log) =>
              /\ applied_log' = Append(applied_log, NextCommand)
              /\ engine' = apply_command(engine, evt_ring, NextCommand).engine
              /\ evt_ring' = apply_command(engine, evt_ring, NextCommand).evt_ring
              /\ engine'.sine_generator = engine.sine_generator
              /\ engine'.fallback_scratch = engine.fallback_scratch
              /\ \A id \in PlanIds :
                    plan_status'[id] = "live" => plans'[id] = plans[id]
        /\ (a_pc = "drain" /\ a_pc' = "render") => is_empty(cmd_ring)
        /\ (a_pc = "render" /\ a_pc' # "render" /\ engine.should_quit) =>
              /\ engine' = engine
              /\ plans' = plans
              /\ plan_status' = plan_status
              /\ evt_ring' = evt_ring
              /\ output' = [i \in 1..FrameCount |-> 0]
              /\ rendered_by' = [kind |-> "silence", id |-> 0]
              /\ a_pc' = "idle" ]_vars

\* With the quit flag set a second plan was swapped in and the first one
\* sent back; the call has ended with a silent block and the second plan,
\* which has not run, is as compiled.
C33_Witness ==
    /\ a_pc = "idle"
    /\ applied_log = <<SwapGraph(1), Quit, SwapGraph(2)>>
    /\ evt_log = <<GraphSwapped(1)>>
    /\ engine.should_quit
    /\ engine.current_graph = 2
    /\ plans[2] = build_default_graph(1, 2).graph
    /\ rendered_by = [kind |-> "silence", id |-> 0]
    /\ output = [i \in 1..FrameCount |-> 0]

Ascending(list) == \A k, l \in 1..Len(list) : k < l => list[k] < list[l]

RECURSIVE WeightedSum(_, _, _, _, _)
\* The sum, over the entries k.. of the input list, of the k-th gain (zero
\* when there is none) times sample s of the buffer at the k-th entry.
WeightedSum(gains, buffers, list, s, k) ==
    IF k > Len(list)
    THEN 0
    ELSE (IF k <= Len(gains) THEN gains[k] ELSE 0) * buffers[list[k] + 1][s]
         + WeightedSum(gains, buffers, list, s, k + 1)

\* C35: input order. The input list of each compiled node is strictly
\* ascending and holds exactly the topological positions of the nodes with
\* an edge to it, whatever the order of the edges in the adjacency lists and
\* however often an edge was added; and after process every sample of a
\* mixer's buffer is the sum of its k-th gain times that sample of its k-th
\* predecessor in topological order.
C35_InputOrder ==
    /\ (b_last.op = "compile" /\ b_last.ok) =>
          LET order == topological_sort(graph).order
              n     == Len(graph.nodes)
          IN  \A i \in 1..n :
                 LET list == b_last.plan.input_buf_indices[i]
                 IN  /\ Ascending(list)
                     /\ {list[k] : k \in 1..Len(list)} =
                           {j \in 0..(n - 1) : Edge(graph, order[j + 1], order[i])}
    /\ b_last.op = "process" =>
          \A i \in 1..Len(b_last.plan.nodes) :
             /\ Ascending(b_last.plan.input_buf_indices[i])
             /\ b_last.plan.nodes[i].kind = "Mixer" =>
                   \A s \in 1..b_last.frame_count :
                      b_last.plan.scratch_buffers[i][s] =
                         WeightedSum(b_last.plan.nodes[i].gains,
                                     b_last.plan.scratch_buffers,
                                     b_last.plan.input_buf_indices[i], s, 1)

\* The mixer was added first, then the two generators; the edge from the
\* first of them was added twice. The mixer's inputs are positions 0 and 1,
\* and with gains 1 and 2 the second sample is -1 * 1 + 1 * 2.
C35_Witness ==
    /\ b_last.op = "process" /\ ~b_last.panicked
    /\ graph.nodes = <<Mixer_new(<<1, 2>>), SineGenerator_new(3, SampleRate),
                       SineGenerator_new(1, SampleRate)>>
    /\ graph.adjacency = << <<>>, <<0, 0>>, <<0>> >>
    /\ b_last.plan.input_buf_indices[3] = <<0, 1>>
    /\ b_last.frame_count = 2
    /\ b_last.output = <<0, 1>>

====
